---- MODULE Spec2Model ----
(***************************************************************************)
(* Verification model of the VCP-trader strategy-and-simulation engine:    *)
(*   - StopLossManager (src/trading/stop_loss.py), the multi-level         *)
(*     trailing-stop engine, driven as simulate_trailing drives it and by  *)
(*     direct calls;                                                       *)
(*   - VCPTrader (scripts/run_trader.py), the live position book that      *)
(*     persists the engine's results;                                      *)
(*   - BacktestEngine (src/backtesting/backtest_engine.py), the day loop.  *)
(*                                                                         *)
(* Prices are integers (won).  Stop prices are kept multiplied by Scale    *)
(* so that price*(1 - pct/100) and entry*1.001 are exact for integer       *)
(* percentages; the model computes in exact arithmetic where the program   *)
(* computes in binary floating point.                                      *)
(***************************************************************************)
EXTENDS Integers, Sequences, FiniteSets, Bags, TLC

VARIABLES
    cfg,            \* StopLossManager configuration (initial_stop_pct, trailing_levels, breakeven)
    entry_price,    \* simulate_trailing: entry_price argument
    highest_price,  \* simulate_trailing: carried highest_price
    current_level,  \* simulate_trailing: carried current_level
    results,        \* simulate_trailing: list of TrailingStopResult returned so far
    direct,         \* result of the last direct calculate_stop call (or NoCall)
    sp_call,        \* arguments and result of the last calculate_stop_price call (or NoCall)
    t_positions,    \* VCPTrader.positions: symbol -> Position (or NoPos)
    t_last,         \* per symbol, the last stop_result monitor_positions got and the stop persisted before it
    bt_pc,          \* BacktestEngine.run: position in the run ("idle" before, "done" after)
    bt_max_positions, \* BacktestEngine.max_positions
    bt_ndays,       \* len(date_range)
    bt_day,         \* day_idx + 1 of current_date
    bt_bar,         \* the bar of current_date per symbol (or NoBar)
    bt_positions,   \* BacktestEngine.positions, a dict in insertion order
    bt_trades,      \* BacktestEngine.trades
    bt_snapshots,   \* BacktestEngine.daily_snapshots
    bt_checked,     \* per symbol, the low and stop compared by the day's maintenance (or NoCall)
    bt_scan,        \* the day's signal scan: open count before it and the ranked signals (or NoCall)
    bt_initial_capital, \* BacktestEngine.initial_capital
    bt_cash,        \* BacktestEngine.cash
    bt_prev_total,  \* run: prev_total_value
    bt_entries,     \* the day's _execute_entry calls: arguments, sizing input and effect on cash
    bt_result,      \* the BacktestResult run returned (or NoCall)
    bt_runs_left,   \* calls of run the caller still makes on this engine
    bt_data,        \* the stored historical data, per business day (replayed runs only)
    bt_earlier,     \* the BacktestResult of the previous run, as its caller holds it (or NoCall)
    rm_call,        \* arguments and result of the last RiskManager.calculate_position_size call (or NoCall)
    vcp_call,       \* input and result of the last VCPDetector.detect call (or NoCall)
    tt_call,        \* input and result of the last TrendTemplate.analyze call (or NoCall)
    rs_call,        \* input and result of the last RSCalculator.calculate_raw_rs call (or NoCall)
    ratings_call,   \* universe and result of the last RSCalculator.calculate_ratings call (or NoCall)
    batch_call,     \* operation, symbols and result of the last batch operation (or NoCall)
    executor        \* the OrderExecutor, the orders it placed with the broker and its last call (or NoCall)

engine_vars == <<cfg, entry_price, highest_price, current_level, results, direct, sp_call>>
trader_vars == <<t_positions, t_last>>

bt_vars == <<bt_pc, bt_max_positions, bt_ndays, bt_day, bt_bar, bt_positions,
             bt_trades, bt_snapshots, bt_checked, bt_scan,
             bt_initial_capital, bt_cash, bt_prev_total, bt_entries, bt_result,
             bt_runs_left, bt_data, bt_earlier>>

rerun_vars == <<bt_runs_left, bt_data, bt_earlier>>

\* the last calls of the pattern-analysis functions and the order executor
lib_vars == <<tt_call, rs_call, ratings_call, batch_call, executor>>

\* the last calls of the stateless components
fn_vars == <<rm_call, vcp_call, lib_vars>>

vars == <<engine_vars, trader_vars, bt_vars, fn_vars>>

----------------------------------------------------------------------------
(* Bounds of the model *)

\* longest price series fed to simulate_trailing
MaxCalls == 4

\* stop prices are stored as price * Scale (entry * 1.001 = entry * 1001 / Scale)
Scale == 1000

NoCall == [called |-> FALSE]

Max(a, b) == IF a >= b THEN a ELSE b

\* price points fed as current_price / highest_price
Prices == {9000, 9300, 10000, 10500, 11000, 12000, 15000}

\* entry prices
EntryPrices == {10000, 10500}

\* traded symbols
Symbols == {"A", "B"}

NoPos == [open |-> FALSE]

NoBar == [has |-> FALSE]

Min(a, b) == IF a <= b THEN a ELSE b

\* most business days in [start_date, end_date]
MaxDays == 2

\* most swing-high segments of a base
MaxSegments == 3

\* most symbols of a rated universe
MaxUniverse == 8

\* most symbols of a batch
MaxBatch == 3

\* the seconds of the clock that names stop orders
MaxClock == 2

\* most orders placed with the broker
MaxOrders == 2

\* BacktestEngine.slippage_rate, in 1/Scale (default 0.001)
SlipPermille == 1

\* BacktestEngine.commission_rate (default 0.00015) = CommNum / CommDen
CommNum == 3
CommDen == 20000

\* _execute_entry: "int((self.cash * 0.95) / entry_price)", 0.95 = CashUseNum / CashUseDen
CashUseNum == 19
CashUseDen == 20

\* BacktestEngine.initial_capital, in won
InitialCapital == 25000

(* An amount of money of the backtest is the pair (net, fee): its value,     *)
(* times Scale, is net - fee * CommNum / CommDen.  net collects the costs    *)
(* and proceeds, fee the amounts commission was charged on, so that cash     *)
(* is exact.                                                                 *)
Amount(net, fee) == [net |-> net, fee |-> fee]

\* the least integer >= k * CommNum * fee / CommDen
FeeCeil(k, fee) ==
    k * CommNum * (fee \div CommDen)
      + ((k * CommNum * (fee % CommDen) + CommDen - 1) \div CommDen)

----------------------------------------------------------------------------
(* Configuration: Settings defaults and the configurations of the tests *)

\* Settings.initial_stop_loss = 7.0, Settings.trailing_stop_levels
DefaultCfg ==
    [initial_stop_pct |-> 7,
     trailing_levels |-> << [profit_threshold |-> 5,  trail_percent |-> 5],
                            [profit_threshold |-> 10, trail_percent |-> 8],
                            [profit_threshold |-> 20, trail_percent |-> 10],
                            [profit_threshold |-> 50, trail_percent |-> 15] >>,
     use_breakeven |-> TRUE,
     breakeven_profit_threshold |-> 10]

\* the configurations a StopLossManager is constructed with
Configs ==
    { DefaultCfg,
      \* test_calculate_trailing_stop
      [initial_stop_pct |-> 7,
       trailing_levels |-> << [profit_threshold |-> 10, trail_percent |-> 8] >>,
       use_breakeven |-> TRUE,
       breakeven_profit_threshold |-> 10],
      \* trails that tighten as profit grows, no breakeven rule
      [initial_stop_pct |-> 7,
       trailing_levels |-> << [profit_threshold |-> 5,  trail_percent |-> 10],
                              [profit_threshold |-> 20, trail_percent |-> 5] >>,
       use_breakeven |-> FALSE,
       breakeven_profit_threshold |-> 10],
      \* thresholds not in ascending order
      [initial_stop_pct |-> 5,
       trailing_levels |-> << [profit_threshold |-> 20, trail_percent |-> 10],
                              [profit_threshold |-> 5,  trail_percent |-> 5] >>,
       use_breakeven |-> TRUE,
       breakeven_profit_threshold |-> 50] }

----------------------------------------------------------------------------
(* StopLossManager *)

\* _build_levels: level 0 (INITIAL, threshold -100, always active) followed
\* by one TRAILING level per configured entry.  levels[k+1] is level k.
build_levels(c) ==
    << [level |-> 0, stop_type |-> "initial",
        profit_threshold |-> -100, trail_percent |-> c.initial_stop_pct] >>
    \o [i \in 1..Len(c.trailing_levels) |->
          [level |-> i, stop_type |-> "trailing",
           profit_threshold |-> c.trailing_levels[i].profit_threshold,
           trail_percent |-> c.trailing_levels[i].trail_percent]]

\* profit_pct >= threshold, with profit_pct = ((price - entry) / entry) * 100
\* and entry > 0
ProfitAtLeast(entry, price, threshold) ==
    (price - entry) * 100 >= threshold * entry

\* get_current_level: the loop over self.levels, keeping the level of the
\* last entry whose threshold the profit reaches
RECURSIVE LevelScan(_, _, _, _, _)
LevelScan(levels, i, entry, highest, acc) ==
    IF i > Len(levels) THEN acc
    ELSE LevelScan(levels, i + 1, entry, highest,
                   IF ProfitAtLeast(entry, highest, levels[i].profit_threshold)
                   THEN levels[i].level ELSE acc)

get_current_level(c, entry, highest) ==
    LevelScan(build_levels(c), 1, entry, highest, 0)

\* calculate_stop_price with the trailing stop taken from the entry price
calculate_stop_price_mut(c, entry, highest, level) ==
    LET levels     == build_levels(c)
        level_info == IF level < Len(levels) THEN levels[level + 1]
                                             ELSE levels[Len(levels)]
        base       == entry * (100 - level_info.trail_percent) * (Scale \div 100)
    IN  IF c.use_breakeven
           /\ ProfitAtLeast(entry, highest, c.breakeven_profit_threshold)
        THEN Max(base, entry * (Scale + 1))
        ELSE base

\* calculate_stop_price, result multiplied by Scale
calculate_stop_price(c, entry, highest, level) ==
    LET levels     == build_levels(c)
        level_info == IF level < Len(levels) THEN levels[level + 1]
                                             ELSE levels[Len(levels)]
        base       == IF level_info.stop_type = "initial"
                      THEN entry * (100 - level_info.trail_percent) * (Scale \div 100)
                      ELSE highest * (100 - level_info.trail_percent) * (Scale \div 100)
    IN  IF c.use_breakeven
           /\ ProfitAtLeast(entry, highest, c.breakeven_profit_threshold)
        THEN Max(base, entry * (Scale + 1))
        ELSE base

\* calculate_stop, "should_exit = current_price <= stop_price"
should_exit_mut(price, stop) == price * Scale < stop
should_exit_of(price, stop) == price * Scale <= stop

\* calculate_stop, exit_reason: None, or the stop-loss text when
\* profit_pct < 0 (current_price below entry_price, entry_price > 0), or the
\* trailing-stop text
exit_reason_of(entry, price, highest, should_exit) ==
    IF ~should_exit THEN "None"
    ELSE IF price < entry THEN "stop_loss" ELSE "trailing_stop"

\* calculate_stop, "actual_level = max(current_level, new_level)"
actual_level_mut(level, new_level) == new_level
actual_level_of(level, new_level) == Max(level, new_level)

\* calculate_stop: the TrailingStopResult (with the arguments it was
\* called with kept as level_in / highest_in)
calculate_stop(c, entry, price, highest, level) ==
    LET hp          == Max(highest, price)
        new_level   == get_current_level(c, entry, hp)
        actual      == actual_level_of(level, new_level)
        stop0       == calculate_stop_price(c, entry, hp, actual)
        stop        == IF level > 0
                       THEN Max(stop0, calculate_stop_price(c, entry, hp, level))
                       ELSE stop0
        should_exit == should_exit_of(price, stop)
    IN  [entry_price   |-> entry,
         highest_price |-> hp,
         current_level |-> actual,
         called        |-> TRUE,
         should_exit   |-> should_exit,
         current_price |-> price,
         highest_in    |-> highest,
         level_in      |-> level,
         stop_price    |-> stop,
         exit_reason   |-> exit_reason_of(entry, price, hp, should_exit)]

----------------------------------------------------------------------------
(* simulate_trailing and direct calls *)

InitStop ==
    /\ cfg \in Configs
    /\ entry_price \in EntryPrices
    /\ highest_price = entry_price
    /\ current_level = 0
    /\ results = << >>
    /\ direct = NoCall
    /\ sp_call = NoCall
    /\ t_positions = [s \in Symbols |-> NoPos]
    /\ t_last = [s \in Symbols |-> NoCall]
    /\ bt_pc = "idle"
    /\ bt_max_positions = 1
    /\ bt_ndays = 0
    /\ bt_day = 0
    /\ bt_bar = [s \in Symbols |-> NoBar]
    /\ bt_positions = << >>
    /\ bt_trades = << >>
    /\ bt_snapshots = << >>
    /\ bt_checked = [s \in Symbols |-> NoCall]
    /\ bt_scan = NoCall
    /\ bt_initial_capital = InitialCapital
    /\ bt_cash = Amount(InitialCapital * Scale, 0)
    /\ bt_prev_total = Amount(InitialCapital * Scale, 0)
    /\ bt_entries = << >>
    /\ bt_result = NoCall
    /\ bt_runs_left = 1
    /\ bt_data = << >>
    /\ bt_earlier = NoCall
    /\ rm_call = NoCall
    /\ vcp_call = NoCall
    /\ tt_call = NoCall
    /\ rs_call = NoCall
    /\ ratings_call = NoCall
    /\ batch_call = NoCall
    /\ executor = NoCall

\* simulate_trailing: "if result.should_exit: break"
Exited == IF Len(results) = 0 THEN FALSE ELSE results[Len(results)].should_exit

\* one iteration of simulate_trailing's loop: the loop stops after a result
\* with should_exit
SimulateStep(price) ==
    /\ Len(results) < MaxCalls
    /\ ~Exited
    /\ LET r == calculate_stop(cfg, entry_price, price, highest_price, current_level)
       IN  /\ results' = Append(results, r)
           /\ highest_price' = r.highest_price
           /\ current_level' = r.current_level
    /\ UNCHANGED <<fn_vars, cfg, entry_price, direct, sp_call, trader_vars, bt_vars>>

\* a direct call of calculate_stop with a stored highest_price and level,
\* as the tests and the traders make it
DirectCalculateStop(price, highest, level) ==
    /\ direct' = calculate_stop(cfg, entry_price, price, highest, level)
    /\ UNCHANGED <<fn_vars, cfg, entry_price, highest_price, current_level, results, sp_call, trader_vars, bt_vars>>

\* a direct call of calculate_stop_price
DirectCalculateStopPrice(highest, level) ==
    /\ sp_call' = [entry_price |-> entry_price, highest_price |-> highest,
                   called |-> TRUE, level |-> level,
                   result |-> calculate_stop_price(cfg, entry_price, highest, level)]
    /\ UNCHANGED <<fn_vars, cfg, entry_price, highest_price, current_level, results, direct, trader_vars, bt_vars>>

\* simulate_trailing over a price series
NextStop ==
    \E p \in Prices : SimulateStep(p)

SpecStop == InitStop /\ [][NextStop]_vars

\* direct calls of calculate_stop
NextCall ==
    \E p \in Prices, h \in Prices, l \in 0..Len(cfg.trailing_levels) :
        DirectCalculateStop(p, h, l)

SpecCall == InitStop /\ [][NextCall]_vars

\* direct calls of calculate_stop_price
NextPrice ==
    \E h \in Prices, l \in 0..Len(cfg.trailing_levels) :
        DirectCalculateStopPrice(h, l)

SpecPrice == InitStop /\ [][NextPrice]_vars

----------------------------------------------------------------------------
(* VCPTrader: the live position book (scripts/run_trader.py) *)

\* current prices the fetcher reports
TraderPrices == {9000, 10000, 10500, 11000}

\* fill prices of an entry
TraderEntryPrices == {10000}

\* stop_price of a candidate: VCPPattern.stop_loss_price = base_low * 0.98
CandidateStops == {9000, 9600}

\* Position.__init__: current_stop_price = initial_stop_price = stop_price,
\* highest_price = entry_price, trailing_level = 0.  stop_before and
\* level_before keep the values persisted before the last maintenance update.
NewPosition(entry, stop) ==
    [entry_price |-> entry,
     highest_price |-> entry,
     open |-> TRUE,
     initial_stop_price |-> stop,
     current_stop_price |-> stop,
     trailing_level |-> 0,
     stop_before |-> stop,
     level_before |-> 0]

Held(positions) == {s \in Symbols : positions[s].open}

InitTrader ==
    /\ cfg = DefaultCfg
    /\ entry_price \in {10000}
    /\ highest_price = entry_price
    /\ current_level = 0
    /\ results = << >>
    /\ direct = NoCall
    /\ sp_call = NoCall
    /\ t_positions = [s \in Symbols |-> NoPos]
    /\ t_last = [s \in Symbols |-> NoCall]
    /\ bt_pc = "idle"
    /\ bt_max_positions = 1
    /\ bt_ndays = 0
    /\ bt_day = 0
    /\ bt_bar = [s \in Symbols |-> NoBar]
    /\ bt_positions = << >>
    /\ bt_trades = << >>
    /\ bt_snapshots = << >>
    /\ bt_checked = [s \in Symbols |-> NoCall]
    /\ bt_scan = NoCall
    /\ bt_initial_capital = InitialCapital
    /\ bt_cash = Amount(InitialCapital * Scale, 0)
    /\ bt_prev_total = Amount(InitialCapital * Scale, 0)
    /\ bt_entries = << >>
    /\ bt_result = NoCall
    /\ bt_runs_left = 1
    /\ bt_data = << >>
    /\ bt_earlier = NoCall
    /\ rm_call = NoCall
    /\ vcp_call = NoCall
    /\ tt_call = NoCall
    /\ rs_call = NoCall
    /\ ratings_call = NoCall
    /\ batch_call = NoCall
    /\ executor = NoCall

\* _update_account_value: a position the broker reports and the trader does
\* not know is loaded with the stop estimated at -initial_stop_loss %
TraderLoadPosition(s, avg_price) ==
    /\ ~t_positions[s].open
    /\ t_positions' = [t_positions EXCEPT ![s] =
          NewPosition(avg_price,
                      avg_price * (100 - cfg.initial_stop_pct) * (Scale \div 100))]
    /\ UNCHANGED <<fn_vars, engine_vars, t_last, bt_vars>>

\* execute_entries over the candidates of scan_for_entries (symbols not
\* held): each candidate whose size is positive and whose buy succeeds
\* becomes a Position with the candidate's stop_price.  entered is the set
\* of those candidates, fill their fill price and stop.
TraderExecuteEntries(entered, fill) ==
    /\ entered # {}
    /\ entered \subseteq Symbols \ Held(t_positions)
    /\ t_positions' = [s \in Symbols |->
          IF s \in entered
          THEN NewPosition(fill[s].price, fill[s].stop * Scale)
          ELSE t_positions[s]]
    /\ UNCHANGED <<fn_vars, engine_vars, t_last, bt_vars>>

\* monitor_positions, the state update of one position from the stop result
MonitoredPosition(pos, r) ==
    [pos EXCEPT !.highest_price = r.highest_price,
                !.trailing_level = r.current_level,
                !.current_stop_price = r.stop_price,
                !.stop_before = pos.current_stop_price,
                !.level_before = pos.trailing_level]

\* monitor_positions: every position with a current price is recomputed and
\* overwritten; those with should_exit are sold, and removed when the sell
\* succeeds.  price[s] = 0 stands for "no price for s"; sold is the set of
\* symbols whose market sell succeeds.
TraderMonitorPositions(price, sold) ==
    /\ Held(t_positions) # {}
    /\ LET priced == {s \in Held(t_positions) : price[s] # 0}
           res(s) == calculate_stop(cfg, t_positions[s].entry_price, price[s],
                                    t_positions[s].highest_price,
                                    t_positions[s].trailing_level)
           to_close == {s \in priced : res(s).should_exit}
       IN  /\ sold \subseteq to_close
           /\ t_positions' = [s \in Symbols |->
                 IF s \in sold THEN NoPos
                 ELSE IF s \in priced THEN MonitoredPosition(t_positions[s], res(s))
                 ELSE t_positions[s]]
           /\ t_last' = [s \in Symbols |->
                 IF s \in priced
                 THEN [called |-> TRUE,
                       stop_price |-> res(s).stop_price,
                       persisted_stop |-> t_positions[s].current_stop_price,
                       stored |-> s \notin sold]
                 ELSE t_last[s]]
    /\ UNCHANGED <<fn_vars, engine_vars, bt_vars>>

NextTrader ==
    \/ \E s \in Symbols, p \in TraderEntryPrices : TraderLoadPosition(s, p)
    \/ \E entered \in SUBSET Symbols :
          \E fill \in [entered -> [price : TraderEntryPrices, stop : CandidateStops]] :
             TraderExecuteEntries(entered, fill)
    \/ \E price \in [Symbols -> TraderPrices \cup {0}], sold \in SUBSET Symbols :
          TraderMonitorPositions(price, sold)

SpecTrader == InitTrader /\ [][NextTrader]_vars

----------------------------------------------------------------------------
(* BacktestEngine (src/backtesting/backtest_engine.py)                     *)
(*                                                                         *)
(* Prices of positions and trades are kept multiplied by Scale; bars and   *)
(* signal stops are whole won.  Cash is an Amount.                         *)
(*                                                                         *)
(* The engine calls TrendTemplate.check, RSCalculator.calculate,           *)
(* VCPDetector.detect(data), PositionSizeResult.recommended_shares and     *)
(* StopLossManager.update_stop, none of which the source defines under     *)
(* these names and signatures.  Their results are inputs of the model,     *)
(* drawn from AnalysisOutcomes, RecommendedShares and UpdateStopResults.   *)
(***************************************************************************)

\* stocks.iterrows(): the stock list in its order
BtStocks == <<"A", "B">>

\* a day's bar per symbol: close and low
BtBars == { [has |-> TRUE, close |-> 10000, low |-> 10000],
            [has |-> TRUE, close |-> 11000, low |-> 9000],
            [has |-> TRUE, close |-> 11000, low |-> 11000] }

\* data["close"].iloc[-1] of a symbol without a bar on current_date
LastClose == 10000

\* run(min_rs_rating=70.0, min_vcp_score=60.0)
MinRsRating == 70
MinVcpScore == 60

\* per-symbol outcome of the scan's analysis: enough bars, trend template
\* passes, RS rating, VCP score, VCP stop_loss_price
AnalysisOutcomes ==
    { [enough |-> FALSE, passes |-> FALSE, rs_rating |-> 0,  vcp_score |-> 0,  stop_loss |-> 0],
      [enough |-> TRUE,  passes |-> FALSE, rs_rating |-> 90, vcp_score |-> 80, stop_loss |-> 9500],
      [enough |-> TRUE,  passes |-> TRUE,  rs_rating |-> 50, vcp_score |-> 80, stop_loss |-> 9500],
      [enough |-> TRUE,  passes |-> TRUE,  rs_rating |-> 70, vcp_score |-> 50, stop_loss |-> 9500],
      [enough |-> TRUE,  passes |-> TRUE,  rs_rating |-> 70, vcp_score |-> 60, stop_loss |-> 9500],
      [enough |-> TRUE,  passes |-> TRUE,  rs_rating |-> 70, vcp_score |-> 80, stop_loss |-> 9500] }

\* position_size.recommended_shares
RecommendedShares == {0, 1, 2}

\* stop_price of the result of StopLossManager.update_stop, times Scale
UpdateStopResults == {9500 * Scale, 10500 * Scale}

BtHeldIn(positions) == {positions[i].symbol : i \in 1..Len(positions)}
BtHeld == BtHeldIn(bt_positions)

InitBacktest ==
    /\ cfg = DefaultCfg
    /\ entry_price \in {10000}
    /\ highest_price = entry_price
    /\ current_level = 0
    /\ results = << >>
    /\ direct = NoCall
    /\ sp_call = NoCall
    /\ t_positions = [s \in Symbols |-> NoPos]
    /\ t_last = [s \in Symbols |-> NoCall]
    /\ bt_pc = "idle"
    /\ bt_max_positions \in {1, 2}
    /\ bt_ndays = 0
    /\ bt_day = 0
    /\ bt_bar = [s \in Symbols |-> NoBar]
    /\ bt_positions = << >>
    /\ bt_trades = << >>
    /\ bt_snapshots = << >>
    /\ bt_checked = [s \in Symbols |-> NoCall]
    /\ bt_scan = NoCall
    /\ bt_initial_capital = InitialCapital
    /\ bt_cash = Amount(bt_initial_capital * Scale, 0)
    /\ bt_prev_total = Amount(bt_initial_capital * Scale, 0)
    /\ bt_entries = << >>
    /\ bt_result = NoCall
    /\ bt_runs_left = 1
    /\ bt_data = << >>
    /\ bt_earlier = NoCall
    /\ rm_call = NoCall
    /\ vcp_call = NoCall
    /\ tt_call = NoCall
    /\ rs_call = NoCall
    /\ ratings_call = NoCall
    /\ batch_call = NoCall
    /\ executor = NoCall

\* run, lines 186-189: the attributes are bound to new objects, so the
\* lists a BacktestResult returned earlier refers to are left as they were
HeldByCaller(result) == result

\* run, lines 185-201: reset the state; n business days in the range
BtRunStart_mut(n) ==
    /\ bt_pc \in {"idle", "done"}
    /\ bt_runs_left > 0
    /\ bt_runs_left' = bt_runs_left - 1
    /\ bt_pc' = "maintain"
    /\ bt_ndays' = n
    /\ bt_day' = 1
    /\ bt_positions' = << >>
    /\ bt_trades' = << >>
    /\ bt_snapshots' = << >>
    /\ bt_cash' = bt_cash
    /\ bt_prev_total' = Amount(bt_initial_capital * Scale, 0)
    /\ bt_earlier' = HeldByCaller(bt_result)
    /\ bt_result' = NoCall
    /\ UNCHANGED <<fn_vars, engine_vars, trader_vars, bt_max_positions, bt_bar, bt_checked, bt_scan,
                   bt_initial_capital, bt_entries, bt_data>>
BtRunStart(n) ==
    /\ bt_pc \in {"idle", "done"}
    /\ bt_runs_left > 0
    /\ bt_runs_left' = bt_runs_left - 1
    /\ bt_pc' = "maintain"
    /\ bt_ndays' = n
    /\ bt_day' = 1
    /\ bt_positions' = << >>
    /\ bt_trades' = << >>
    /\ bt_snapshots' = << >>
    /\ bt_cash' = Amount(bt_initial_capital * Scale, 0)
    /\ bt_prev_total' = Amount(bt_initial_capital * Scale, 0)
    /\ bt_earlier' = HeldByCaller(bt_result)
    /\ bt_result' = NoCall
    /\ UNCHANGED <<fn_vars, engine_vars, trader_vars, bt_max_positions, bt_bar, bt_checked, bt_scan,
                   bt_initial_capital, bt_entries, bt_data>>

\* _close_position: "actual_exit = exit_price * (1 - self.slippage_rate)".
\* Every price handed to _close_position is a whole number of won (a
\* multiple of Scale), so dividing first is exact.
ActualExit(exit_price) == (exit_price \div Scale) * (Scale - SlipPermille)

\* _close_position: "net_proceeds = proceeds - commission" added to cash
Credit_mut(cash, proceeds) == Amount(cash.net + proceeds, cash.fee)
Credit(cash, proceeds) == Amount(cash.net + proceeds, cash.fee + proceeds)

\* _execute_entry: "self.cash -= total_cost", total_cost = cost + commission
Debit_mut(cash, cost) == Amount(cash.net - cost, cash.fee)
Debit(cash, cost) == Amount(cash.net - cost, cash.fee + cost)

\* sum(p.current_price * p.trade.shares for p in self.positions.values())
RECURSIVE PositionsValue(_)
PositionsValue(positions) ==
    IF positions = << >> THEN 0
    ELSE Head(positions).current_price * Head(positions).trade.shares
           + PositionsValue(Tail(positions))

\* _calculate_portfolio_value
calculate_portfolio_value(cash, positions) ==
    Amount(cash.net + PositionsValue(positions), cash.fee)

\* the proceeds of the closes of a list of finalized trades
RECURSIVE Proceeds(_)
Proceeds(trades) ==
    IF trades = << >> THEN 0
    ELSE Head(trades).exit_price * Head(trades).shares + Proceeds(Tail(trades))

\* _close_position: the finalized Trade
ClosedTrade_mut(pos, date, exit_price, reason) ==
    [pos.trade EXCEPT !.exit_price = ActualExit(exit_price),
                      !.exit_reason = reason]
ClosedTrade(pos, date, exit_price, reason) ==
    [pos.trade EXCEPT !.exit_date = date,
                      !.exit_price = ActualExit(exit_price),
                      !.exit_reason = reason]

\* _update_positions, line 419: "if low_price <= position.stop_loss"
StopBreached_mut(bar, stop) == bar.close * Scale <= stop
StopBreached(bar, stop) == bar.low * Scale <= stop

UpdatedPosition_mut(pos, bar, new_stop) ==
    IF ~bar.has THEN [pos EXCEPT !.stop_loss = new_stop]
    ELSE [pos EXCEPT !.current_price = bar.close * Scale,
                     !.highest_price = Max(pos.highest_price, bar.close * Scale),
                     !.stop_loss = new_stop]

\* _update_positions, lines 404-416: price, high and stop of a position
\* that has a bar; new_stop is update_stop's stop_price
UpdatedPosition(pos, bar, new_stop) ==
    IF ~bar.has THEN pos
    ELSE [pos EXCEPT !.current_price = bar.close * Scale,
                     !.highest_price = Max(pos.highest_price, bar.close * Scale),
                     !.stop_loss = new_stop]

\* _update_positions for current_date followed by the closes of to_close,
\* in the order of the positions dict
BtUpdatePositions(bars, new_stop) ==
    /\ bt_pc = "maintain"
    /\ LET updated == [i \in 1..Len(bt_positions) |->
                         UpdatedPosition(bt_positions[i], bars[bt_positions[i].symbol],
                                         new_stop[bt_positions[i].symbol])]
           ToClose(pos) == /\ bars[pos.symbol].has
                           /\ StopBreached(bars[pos.symbol], pos.stop_loss)
           Keep(pos) == ~ToClose(pos)
           closing == SelectSeq(updated, ToClose)
       IN  /\ bt_positions' = SelectSeq(updated, Keep)
           /\ bt_trades' = bt_trades \o
                 [i \in 1..Len(closing) |->
                    ClosedTrade(closing[i], bt_day, closing[i].stop_loss, "stop_loss")]
           /\ bt_cash' = Credit(bt_cash, Proceeds(
                 [i \in 1..Len(closing) |->
                    ClosedTrade(closing[i], bt_day, closing[i].stop_loss, "stop_loss")]))
           /\ bt_checked' = [s \in Symbols |->
                 IF s \in BtHeld /\ bars[s].has
                 THEN [called |-> TRUE, stop |-> new_stop[s], close |-> bars[s].close,
                       low |-> bars[s].low]
                 ELSE NoCall]
    /\ bt_bar' = bars
    /\ bt_pc' = "scan"
    /\ UNCHANGED <<fn_vars, engine_vars, trader_vars, rerun_vars, bt_max_positions, bt_ndays, bt_day,
                   bt_snapshots, bt_scan, bt_initial_capital, bt_prev_total, bt_entries,
                   bt_result>>

\* _scan_for_signals, lines 278-325: the signals in stock-list order
RECURSIVE ScanStocks(_, _, _)
ScanStocks(i, outcome, held) ==
    IF i > Len(BtStocks) THEN << >>
    ELSE LET code == BtStocks[i]
             o    == IF code \in held THEN NoCall ELSE outcome[code]
             take == /\ code \notin held
                     /\ o.enough
                     /\ o.passes
                     /\ ~(o.rs_rating < MinRsRating)
                     /\ ~(o.vcp_score < MinVcpScore)
             sig  == [price |-> IF bt_bar[code].has THEN bt_bar[code].close ELSE LastClose,
                      rs_rating |-> o.rs_rating,
                      vcp_score |-> o.vcp_score,
                      stop_loss |-> o.stop_loss,
                      code |-> code]
         IN  (IF take THEN <<sig>> ELSE << >>) \o ScanStocks(i + 1, outcome, held)

SortKey(sig) == sig.vcp_score + sig.rs_rating

\* list.sort(key=..., reverse=True): stable, descending
RECURSIVE InsertSorted(_, _)
InsertSorted(sorted, sig) ==
    IF sorted = << >> THEN <<sig>>
    ELSE IF SortKey(Head(sorted)) >= SortKey(sig)
         THEN <<Head(sorted)>> \o InsertSorted(Tail(sorted), sig)
         ELSE <<sig>> \o sorted

RECURSIVE SortSignals(_)
SortSignals(sigs) ==
    IF sigs = << >> THEN << >>
    ELSE InsertSorted(SortSignals(SubSeq(sigs, 1, Len(sigs) - 1)), sigs[Len(sigs)])

scan_for_signals(outcome, held) == SortSignals(ScanStocks(1, outcome, held))

\* run, line 223: signals[:self.max_positions - len(self.positions)]
EntrySlice_mut(signals, max_positions, open_count) == signals
EntrySlice(signals, max_positions, open_count) ==
    SubSeq(signals, 1, Min(Len(signals), max_positions - open_count))

\* _execute_entry: the Position opened for a signal
EntryPosition(sig, date, shares) ==
    LET fill == sig.price * (Scale + SlipPermille)
    IN  [highest_price |-> fill,
         current_price |-> fill,
         stop_loss |-> sig.stop_loss * Scale,
         symbol |-> sig.code,
         trade |-> [entry_price |-> fill, exit_reason |-> "None", stop_loss |-> sig.stop_loss * Scale,
                    symbol |-> sig.code, exit_price |-> 0,
                    shares |-> shares, exit_date |-> 0, entry_date |-> date]]

\* _execute_entry, line 353: "if total_cost > self.cash"
TotalCostExceeds_mut(cost, cash) == FALSE
TotalCostExceeds(cost, cash) == cash.net - cost < FeeCeil(1, cost + cash.fee)

\* _execute_entry, line 354: "shares = int((self.cash * 0.95) / entry_price)"
ShrunkShares_mut(cash, fill) == cash.net \div fill
ShrunkShares(cash, fill) ==
    (CashUseNum * cash.net - FeeCeil(CashUseNum, cash.fee)) \div (CashUseDen * fill)

\* _execute_entry, lines 344-359: the shares bought, 0 when the entry returns
\* early; requested is position_size.recommended_shares
EntryShares(requested, fill, cash) ==
    IF requested <= 0 THEN 0
    ELSE IF TotalCostExceeds(fill * requested, cash)
         THEN Max(0, ShrunkShares(cash, fill))
         ELSE requested

\* _execute_entry for one signal on the engine state st = (positions, cash,
\* entries)
execute_entry(st, sig, date, requested) ==
    LET fill   == sig.price * (Scale + SlipPermille)
        shares == EntryShares(requested, fill, st.cash)
        after  == IF shares <= 0 THEN st.cash ELSE Debit(st.cash, fill * shares)
        call   == [price |-> sig.price, fill |-> fill, shares |-> shares,
                   code |-> sig.code,
                   requested |-> requested,
                   account_value |-> calculate_portfolio_value(st.cash, st.positions), current_positions |-> Len(st.positions),
                   cash_before |-> st.cash, cash_after |-> after]
    IN  [positions |-> IF shares <= 0 THEN st.positions
                       ELSE Append(st.positions, EntryPosition(sig, date, shares)),
         cash |-> after,
         entries |-> Append(st.entries, call)]

\* the loop of _execute_entry calls over the slice
RECURSIVE ExecuteEntries(_, _, _, _)
ExecuteEntries(st, slice, date, shares) ==
    IF slice = << >> THEN st
    ELSE ExecuteEntries(execute_entry(st, Head(slice), date, shares[Head(slice).code]),
                        Tail(slice), date, shares)

\* run, lines 212-224: the signal scan and the entries of current_date
BtScanAndEnter(outcome, shares) ==
    /\ bt_pc = "scan"
    /\ IF Len(bt_positions) < bt_max_positions
       THEN LET signals == scan_for_signals(outcome, BtHeld)
                slice   == EntrySlice(signals, bt_max_positions, Len(bt_positions))
                st      == ExecuteEntries([positions |-> bt_positions, cash |-> bt_cash,
                                           entries |-> << >>],
                                          slice, bt_day, shares)
            IN  /\ bt_positions' = st.positions
                /\ bt_cash' = st.cash
                /\ bt_entries' = st.entries
                /\ bt_scan' = [called |-> TRUE, signals |-> signals,
                               ran |-> TRUE, open_before |-> Len(bt_positions)]
       ELSE /\ bt_positions' = bt_positions
            /\ bt_cash' = bt_cash
            /\ bt_entries' = << >>
            /\ bt_scan' = [called |-> TRUE, signals |-> << >>,
                           ran |-> FALSE, open_before |-> Len(bt_positions)]
    /\ bt_pc' = "snapshot"
    /\ UNCHANGED <<fn_vars, engine_vars, trader_vars, rerun_vars, bt_max_positions, bt_ndays, bt_day, bt_bar,
                   bt_trades, bt_snapshots, bt_checked, bt_initial_capital, bt_prev_total,
                   bt_result>>

\* total_value - prev_total_value
AmountDiff(a, b) == Amount(a.net - b.net, a.fee - b.fee)

\* run, lines 231-239: the DailySnapshot of current_date
DailySnapshot_mut(date, cash, positions, prev_total_value) ==
    [cash |-> cash,
     date |-> date,
     positions_value |-> PositionsValue(positions),
     total_value |-> cash,
     positions_count |-> Len(positions),
     daily_pnl |-> AmountDiff(cash, prev_total_value)]
DailySnapshot(date, cash, positions, prev_total_value) ==
    [cash |-> cash,
     date |-> date,
     positions_value |-> PositionsValue(positions),
     total_value |-> calculate_portfolio_value(cash, positions),
     positions_count |-> Len(positions),
     daily_pnl |-> AmountDiff(calculate_portfolio_value(cash, positions), prev_total_value)]

\* run, lines 226-241: the day's snapshot, then the next day or the end of
\* the loop
BtEndOfDay ==
    /\ bt_pc = "snapshot"
    /\ bt_snapshots' = Append(bt_snapshots,
                              DailySnapshot(bt_day, bt_cash, bt_positions, bt_prev_total))
    /\ bt_prev_total' = calculate_portfolio_value(bt_cash, bt_positions)
    /\ IF bt_day < bt_ndays
       THEN bt_day' = bt_day + 1 /\ bt_pc' = "maintain"
       ELSE bt_day' = bt_day /\ bt_pc' = "finalize"
    /\ bt_bar' = [s \in Symbols |-> NoBar]
    /\ bt_checked' = [s \in Symbols |-> NoCall]
    /\ bt_scan' = NoCall
    /\ bt_entries' = << >>
    /\ UNCHANGED <<fn_vars, engine_vars, trader_vars, rerun_vars, bt_max_positions, bt_ndays, bt_positions,
                   bt_trades, bt_initial_capital, bt_cash, bt_result>>

\* run, lines 247-262: the BacktestResult
BacktestResult_mut(initial_capital, final_capital, trades, snapshots) ==
    [called |-> TRUE, trades |-> trades,
     initial_capital |-> initial_capital, final_capital |-> Amount(initial_capital * Scale, 0),
     daily_snapshots |-> snapshots]
BacktestResult(initial_capital, final_capital, trades, snapshots) ==
    [called |-> TRUE, trades |-> trades,
     initial_capital |-> initial_capital, final_capital |-> final_capital, daily_snapshots |-> snapshots]

\* run, lines 244-265: _close_all_positions(date_range[-1], end-of-backtest)
\* and the result
BtCloseAll ==
    /\ bt_pc = "finalize"
    /\ LET closed == [i \in 1..Len(bt_positions) |->
                        ClosedTrade(bt_positions[i], bt_ndays, bt_positions[i].current_price,
                                    "backtest_end")]
           cash   == Credit(bt_cash, Proceeds(closed))
       IN  /\ bt_trades' = bt_trades \o closed
           /\ bt_cash' = cash
           /\ bt_result' = BacktestResult(bt_initial_capital,
                                          calculate_portfolio_value(cash, << >>),
                                          bt_trades \o closed, bt_snapshots)
    /\ bt_positions' = << >>
    /\ bt_pc' = "done"
    /\ UNCHANGED <<fn_vars, engine_vars, trader_vars, rerun_vars, bt_max_positions, bt_ndays, bt_day, bt_bar,
                   bt_snapshots, bt_checked, bt_scan, bt_initial_capital, bt_prev_total,
                   bt_entries>>

NextBacktest ==
    \/ \E n \in 1..MaxDays : BtRunStart(n)
    \/ \E bars \in [Symbols -> BtBars \cup {NoBar}],
          new_stop \in [BtHeld -> UpdateStopResults] :
          BtUpdatePositions(bars, new_stop)
    \/ \E outcome \in [Symbols \ BtHeld -> AnalysisOutcomes],
          shares \in [Symbols \ BtHeld -> RecommendedShares] :
          BtScanAndEnter(outcome, shares)
    \/ BtEndOfDay
    \/ BtCloseAll

SpecBacktest == InitBacktest /\ [][NextBacktest]_vars

(***************************************************************************)
(* Two runs of one engine over the same stored data.  What a day's data    *)
(* makes the callees return is fixed per day and symbol: the bar, the      *)
(* scan's analysis, the recommended shares and the updated stop.           *)
(***************************************************************************)

\* one business day of stored data
DayData ==
    { [shares    |-> [s \in Symbols |-> 1],
       new_stop  |-> [s \in Symbols |-> 9500 * Scale],
       bars      |-> [s \in Symbols |-> [has |-> TRUE, close |-> 10000, low |-> 10000]],
       outcome   |-> [s \in Symbols |->
                        [enough |-> TRUE, passes |-> TRUE, rs_rating |-> 70,
                         vcp_score |-> 80, stop_loss |-> 9500]]],
      [shares    |-> [s \in Symbols |-> 2],
       new_stop  |-> [s \in Symbols |-> 9500 * Scale],
       bars      |-> [s \in Symbols |-> [has |-> TRUE, close |-> 11000, low |-> 9000]],
       outcome   |-> [s \in Symbols |->
                        [enough |-> TRUE, passes |-> TRUE, rs_rating |-> 70,
                         vcp_score |-> IF s = "B" THEN 80 ELSE 60, stop_loss |-> 9500]]],
      [shares    |-> [s \in Symbols |-> 1],
       new_stop  |-> [s \in Symbols |-> 10500 * Scale],
       bars      |-> [s \in Symbols |->
                        IF s = "A" THEN NoBar
                        ELSE [has |-> TRUE, close |-> 11000, low |-> 11000]],
       outcome   |-> [s \in Symbols |->
                        [enough |-> TRUE, passes |-> TRUE, rs_rating |-> 70,
                         vcp_score |-> 60, stop_loss |-> 9500]]],
      [shares    |-> [s \in Symbols |-> IF s = "A" THEN 0 ELSE 1],
       new_stop  |-> [s \in Symbols |-> 10500 * Scale],
       bars      |-> [s \in Symbols |-> [has |-> TRUE, close |-> 11000, low |-> 11000]],
       outcome   |-> [s \in Symbols |->
                        [enough |-> s = "A", passes |-> TRUE, rs_rating |-> 70,
                         vcp_score |-> 80, stop_loss |-> 9500]]] }

\* the stored data of date_range: one DayData per business day
Datasets == UNION { [1..n -> DayData] : n \in 1..MaxDays }

InitRerun ==
    /\ cfg = DefaultCfg
    /\ entry_price \in {10000}
    /\ highest_price = entry_price
    /\ current_level = 0
    /\ results = << >>
    /\ direct = NoCall
    /\ sp_call = NoCall
    /\ t_positions = [s \in Symbols |-> NoPos]
    /\ t_last = [s \in Symbols |-> NoCall]
    /\ bt_pc = "idle"
    /\ bt_max_positions \in {1, 2}
    /\ bt_ndays = 0
    /\ bt_day = 0
    /\ bt_bar = [s \in Symbols |-> NoBar]
    /\ bt_positions = << >>
    /\ bt_trades = << >>
    /\ bt_snapshots = << >>
    /\ bt_checked = [s \in Symbols |-> NoCall]
    /\ bt_scan = NoCall
    /\ bt_initial_capital = InitialCapital
    /\ bt_cash = Amount(bt_initial_capital * Scale, 0)
    /\ bt_prev_total = Amount(bt_initial_capital * Scale, 0)
    /\ bt_entries = << >>
    /\ bt_result = NoCall
    /\ bt_runs_left = 2
    /\ bt_data \in Datasets
    /\ bt_earlier = NoCall
    /\ rm_call = NoCall
    /\ vcp_call = NoCall
    /\ tt_call = NoCall
    /\ rs_call = NoCall
    /\ ratings_call = NoCall
    /\ batch_call = NoCall
    /\ executor = NoCall

\* the day loop of run over the stored data
NextRerun ==
    \/ BtRunStart(Len(bt_data))
    \/ /\ bt_pc = "maintain"
       /\ BtUpdatePositions(bt_data[bt_day].bars,
                            [s \in BtHeld |-> bt_data[bt_day].new_stop[s]])
    \/ /\ bt_pc = "scan"
       /\ BtScanAndEnter(bt_data[bt_day].outcome, bt_data[bt_day].shares)
    \/ BtEndOfDay
    \/ BtCloseAll

SpecRerun == InitRerun /\ [][NextRerun]_vars

----------------------------------------------------------------------------
(* RiskManager.calculate_position_size (src/trading/risk_manager.py)       *)
(*                                                                         *)
(* Amounts are whole won; percentages (max_risk_per_trade, the caps, the   *)
(* exposures passed in) are whole percents, so that every quotient the     *)
(* program truncates with int() is an exact integer division here.         *)
(***************************************************************************)

\* RiskManager(): Settings defaults and the constructor's defaults
DefaultRisk ==
    [max_risk_per_trade |-> 2, max_positions |-> 8, max_sector_concentration |-> 30,
     max_single_position_pct |-> 15, max_portfolio_exposure |-> 100,
     min_position_value |-> 1000000]

\* floor(amount * pct / 100)
PctOf(amount, pct) == (amount \div 100) * pct + ((amount % 100) * pct) \div 100

\* arguments of calculate_position_size
RmAccounts == {0, 5000000, 7000000, 100000000}
RmEntries == {10000, 30000, 50000}
RmStops == {9000, 29000, 46500, 49000, 50000}
RmPositions == {0, 8}
RmExposures == {0, 90, 100}
RmSectors == {"None", "tech"}
RmSectorExposures == {0, 25, 30}
RmLotSizes == {1, 10}

\* lines 158-166: the risk-based size
original_size(rm, account_value, entry, stop) ==
    LET risk_per_share == IF entry >= stop THEN entry - stop ELSE stop - entry
    IN  IF risk_per_share > 0
        THEN PctOf(account_value, rm.max_risk_per_trade) \div risk_per_share
        ELSE 0

\* lines 171-174: constraint 1, the position-count cap
count_cap(rm, st, current_positions) ==
    IF current_positions >= rm.max_positions
    THEN [size |-> 0, label |-> "max_positions_exceeded"]
    ELSE st

\* lines 176-181: constraint 2, the single-position value cap
single_cap_mut(rm, st, account_value, entry) == st
single_cap(rm, st, account_value, entry) ==
    IF st.size * entry > PctOf(account_value, rm.max_single_position_pct)
    THEN [size |-> PctOf(account_value, rm.max_single_position_pct) \div entry,
          label |-> IF st.label = "None" THEN "single_position_limit" ELSE st.label]
    ELSE st

\* lines 183-193: constraint 3, the portfolio exposure cap
exposure_cap(rm, st, account_value, entry, current_exposure) ==
    LET available == rm.max_portfolio_exposure - current_exposure
        max_from  == PctOf(account_value, available) \div entry
    IN  IF available <= 0
        THEN [size |-> 0, label |-> "exposure_exceeded"]
        ELSE IF st.size > max_from
             THEN [size |-> max_from,
                   label |-> IF st.label = "None" THEN "exposure_limit" ELSE st.label]
             ELSE st

\* lines 195-206: constraint 4, the sector concentration cap
sector_cap(rm, st, account_value, entry, sector, sector_exposure) ==
    LET available == rm.max_sector_concentration - sector_exposure
        max_from  == PctOf(account_value, available) \div entry
    IN  IF sector = "None" THEN st
        ELSE IF available <= 0
             THEN [size |-> 0, label |-> "sector_exceeded"]
             ELSE IF st.size > max_from
                  THEN [size |-> max_from,
                        label |-> IF st.label = "None" THEN "sector_limit" ELSE st.label]
                  ELSE st

\* lines 208-211: the minimum position value
min_value(rm, st, entry) ==
    IF st.size * entry < rm.min_position_value
    THEN [size |-> 0, label |-> "min_position_value"]
    ELSE st

\* line 214: the lot size
lot_round(st, lot_size) == [st EXCEPT !.size = (st.size \div lot_size) * lot_size]

\* calculate_position_size: the PositionSizeResult, with the size after each
\* constraint
calculate_position_size(rm, a) ==
    LET s0 == [size |-> original_size(rm, a.account_value, a.entry_price, a.stop_price),
               label |-> "None"]
        s1 == count_cap(rm, s0, a.current_positions)
        s2 == single_cap(rm, s1, a.account_value, a.entry_price)
        s3 == exposure_cap(rm, s2, a.account_value, a.entry_price, a.current_exposure)
        s4 == sector_cap(rm, s3, a.account_value, a.entry_price, a.sector, a.sector_exposure)
        s5 == min_value(rm, s4, a.entry_price)
        s6 == lot_round(s5, a.lot_size)
    IN  [called |-> TRUE, original_size |-> s0.size, args |-> a,
         risk_amount |-> PctOf(a.account_value, rm.max_risk_per_trade),
         sizes |-> <<s1.size, s2.size, s3.size, s4.size, s5.size, s6.size>>,
         position_size |-> s6.size,
         position_value |-> s6.size * a.entry_price,
         size_limited_by |-> s6.label]

\* the arguments calculate_position_size is about to be called with
RmArgs ==
    [entry_price : RmEntries, stop_price : RmStops, account_value : RmAccounts,
     current_positions : RmPositions, current_exposure : RmExposures,
     sector : RmSectors, sector_exposure : RmSectorExposures, lot_size : RmLotSizes]

InitRisk ==
    /\ cfg = DefaultCfg
    /\ entry_price = 10000
    /\ highest_price = entry_price
    /\ current_level = 0
    /\ results = << >>
    /\ direct = NoCall
    /\ sp_call = NoCall
    /\ t_positions = [s \in Symbols |-> NoPos]
    /\ t_last = [s \in Symbols |-> NoCall]
    /\ bt_pc = "idle"
    /\ bt_max_positions = 1
    /\ bt_ndays = 0
    /\ bt_day = 0
    /\ bt_bar = [s \in Symbols |-> NoBar]
    /\ bt_positions = << >>
    /\ bt_trades = << >>
    /\ bt_snapshots = << >>
    /\ bt_checked = [s \in Symbols |-> NoCall]
    /\ bt_scan = NoCall
    /\ bt_initial_capital = InitialCapital
    /\ bt_cash = Amount(InitialCapital * Scale, 0)
    /\ bt_prev_total = Amount(InitialCapital * Scale, 0)
    /\ bt_entries = << >>
    /\ bt_result = NoCall
    /\ bt_runs_left = 1
    /\ bt_data = << >>
    /\ bt_earlier = NoCall
    /\ \E a \in RmArgs : rm_call = [called |-> FALSE, args |-> a]
    /\ vcp_call = NoCall
    /\ tt_call = NoCall
    /\ rs_call = NoCall
    /\ ratings_call = NoCall
    /\ batch_call = NoCall
    /\ executor = NoCall

\* one call of calculate_position_size on a RiskManager with the defaults
RmCalculatePositionSize ==
    /\ ~rm_call.called
    /\ rm_call' = calculate_position_size(DefaultRisk, rm_call.args)
    /\ UNCHANGED <<engine_vars, trader_vars, bt_vars, vcp_call, lib_vars>>

NextRisk == RmCalculatePositionSize

SpecRisk == InitRisk /\ [][NextRisk]_vars

----------------------------------------------------------------------------
(* VCPDetector.detect (src/patterns/vcp_detector.py)                       *)
(*                                                                         *)
(* The price frame is given by what detect reads from it: its length, the  *)
(* position of the highest high of the analysis window, the number of      *)
(* swing lows, the segments between consecutive swing highs of the base    *)
(* (bars, high, low, volume ratio in percent) and the low of the base.     *)
(* Depths are kept in 1/DepthScale percent; the highs of the model divide  *)
(* evenly, so depth_pct is exact.                                          *)
(***************************************************************************)

\* VCPDetector(): the constructor's defaults and Settings.min_contractions;
\* contraction_ratio and volume_decline_threshold 0.7 are in tenths
DefaultVcp ==
    [min_contractions |-> 2, max_contractions |-> 6, contraction_ratio |-> 7,
     max_pattern_depth |-> 35, min_pattern_depth |-> 10,
     volume_decline_threshold |-> 7, lookback_days |-> 120, min_base_days |-> 20]

\* Settings.min_vcp_score
SettingsMinVcpScore == 70

DepthScale == 10

\* len(df)
VcpLengths == {50, 120}

\* np.argmax(highs) of the analysis window
VcpPeaks == {0, 99, 100}

\* the high of the base (the window's highest high)
VcpBaseHigh == 100

\* base_df["low"].min()
VcpBaseLows == {60, 80, 94}

\* len(swing_lows)
VcpSwingLows == {1, 2}

\* Settings as detect reads them: min_vcp_score (default SettingsMinVcpScore)
VcpSettings == { [min_vcp_score |-> m] : m \in {60, SettingsMinVcpScore, 90} }

\* the segments between consecutive swing highs
VcpSegments ==
    { [low |-> 80, bars |-> 5, high |-> 100, volume_ratio |-> 100],
      [low |-> 86, bars |-> 5, high |-> 100, volume_ratio |-> 100],
      [low |-> 94, bars |-> 5, high |-> 100, volume_ratio |-> 40],
      [low |-> 97, bars |-> 5, high |-> 100, volume_ratio |-> 40],
      [low |-> 97, bars |-> 2, high |-> 100, volume_ratio |-> 100],
      [low |-> 81, bars |-> 5,  high |-> 90, volume_ratio |-> 60] }

VcpSegmentLists == UNION { [1..n -> VcpSegments] : n \in 0..MaxSegments }

\* the frames detect is called with: the base low is the lowest low of the
\* base, so no segment goes below it
VcpInputs ==
    { f \in [n_bars : VcpLengths, peak_idx : VcpPeaks, base_low : VcpBaseLows,
             swing_lows : VcpSwingLows, segments : VcpSegmentLists] :
        \A i \in 1..Len(f.segments) : f.segments[i].low >= f.base_low }

\* ((high - low) / high) * 100, in 1/DepthScale percent
DepthPct(high, low) == ((high - low) * 100 * DepthScale) \div high

\* _find_base: found unless fewer than min_base_days bars follow the peak
find_base_mut(v, window_len, peak_idx) == TRUE
find_base(v, window_len, peak_idx) ==
    /\ ~(peak_idx >= window_len - v.min_base_days)
    /\ ~(window_len - peak_idx < v.min_base_days)

\* _find_contractions, lines 329-357: one Contraction per segment of at
\* least 3 bars
RECURSIVE SegmentContractions(_)
SegmentContractions(segments) ==
    IF segments = << >> THEN << >>
    ELSE LET seg == Head(segments)
         IN  (IF seg.bars < 3 THEN << >>
              ELSE << [volume_ratio |-> seg.volume_ratio,
                       high_price |-> seg.high, low_price |-> seg.low,
                       depth_pct |-> DepthPct(seg.high, seg.low),
                       duration_days |-> seg.bars] >>)
             \o SegmentContractions(Tail(segments))

\* _find_contractions: len(swing_highs) is the number of segments plus one
find_contractions(v, f) ==
    IF Len(f.segments) + 1 < 2 \/ f.swing_lows < 2 THEN << >>
    ELSE LET all == SegmentContractions(f.segments)
         IN  SubSeq(all, 1, Min(Len(all), v.max_contractions))

\* _validate_progressive_contractions
validate_progressive_contractions_mut(v, contractions) == Len(contractions) >= 2
validate_progressive_contractions(v, contractions) ==
    /\ ~(Len(contractions) < 2)
    /\ \A i \in 2..Len(contractions) :
          ~(contractions[i].depth_pct * 10
               > contractions[i - 1].depth_pct * v.contraction_ratio)

RECURSIVE SumRatios(_, _, _)
SumRatios(contractions, lo, hi) ==
    IF hi < lo THEN 0
    ELSE contractions[hi].volume_ratio + SumRatios(contractions, lo, hi - 1)

\* _analyze_volume: dry_up, the means compared by cross-multiplication
volume_dry_up(v, contractions) ==
    LET n    == Len(contractions)
        k    == n \div 2
        sum1 == SumRatios(contractions, 1, k + 1)
        sum2 == SumRatios(contractions, k + 1, n)
    IN  /\ n >= 2
        /\ sum2 * (k + 1) * 10 < sum1 * (n - k) * v.volume_decline_threshold

\* _evaluate_tightening
evaluate_tightening(contractions) ==
    IF contractions = << >> THEN "none"
    ELSE LET last_depth == contractions[Len(contractions)].depth_pct
         IN  IF last_depth <= 3 * DepthScale THEN "excellent"
             ELSE IF last_depth <= 5 * DepthScale THEN "good"
             ELSE IF last_depth <= 8 * DepthScale THEN "fair"
             ELSE "poor"

\* _is_last_contraction_tight
is_last_contraction_tight(contractions) ==
    /\ contractions # << >>
    /\ contractions[Len(contractions)].depth_pct <= 5 * DepthScale

\* _calculate_score; pattern_depth in 1/DepthScale percent
calculate_score(contractions, pattern_depth, dry_up, tightening_quality, last_tight) ==
    LET n  == Len(contractions)
        c1 == IF n >= 4 THEN 25 ELSE IF n >= 3 THEN 20 ELSE IF n >= 2 THEN 15 ELSE 0
        c2 == IF 15 * DepthScale <= pattern_depth /\ pattern_depth <= 25 * DepthScale THEN 20
              ELSE IF 10 * DepthScale <= pattern_depth /\ pattern_depth <= 30 * DepthScale
                   THEN 15
              ELSE IF pattern_depth <= 35 * DepthScale THEN 10 ELSE 0
        c3 == CASE tightening_quality = "excellent" -> 25
                [] tightening_quality = "good" -> 20
                [] tightening_quality = "fair" -> 15
                [] tightening_quality = "poor" -> 5
                [] OTHER -> 0
        c4 == IF dry_up THEN 15 ELSE 0
        c5 == IF last_tight THEN 15
              ELSE IF contractions # << >>
                      /\ contractions[Len(contractions)].depth_pct <= 8 * DepthScale
                   THEN 10 ELSE 0
    IN  Min(c1 + c2 + c3 + c4 + c5, 100)

\* a VCPPattern; found and pattern_depth keep what detect computed before it
\* returned
VCPPattern(settings, f, detected, score, num_contractions, contractions, message, found, depth) ==
    [called |-> TRUE, contractions |-> contractions, volume_dry_up |-> FALSE,
     settings |-> settings, detected |-> detected,
     score |-> score, num_contractions |-> num_contractions, message |-> message,
     found |-> found, frame |-> f, pattern_depth_pct |-> depth]

\* detected = score >= settings.min_vcp_score
is_detected_mut(settings, score) == score >= SettingsMinVcpScore
is_detected(settings, score) == score >= settings.min_vcp_score

\* detect
detect(v, settings, f) ==
    LET window_len    == v.lookback_days
        contractions  == find_contractions(v, f)
        pattern_depth == DepthPct(VcpBaseHigh, f.base_low)
        score         == calculate_score(contractions, pattern_depth,
                                         volume_dry_up(v, contractions),
                                         evaluate_tightening(contractions),
                                         is_last_contraction_tight(contractions))
        detected      == is_detected(settings, score)
    IN  IF f.n_bars < v.lookback_days
        THEN VCPPattern(settings, f, FALSE, 0, 0, << >>, "insufficient_data", << >>, 0)
        ELSE IF ~find_base(v, window_len, f.peak_idx)
        THEN VCPPattern(settings, f, FALSE, 0, 0, << >>, "no_base", << >>, 0)
        ELSE IF Len(contractions) < v.min_contractions
        THEN VCPPattern(settings, f, FALSE, 0, Len(contractions), << >>,
                        "too_few_contractions", contractions, 0)
        ELSE IF ~validate_progressive_contractions(v, contractions)
        THEN VCPPattern(settings, f, FALSE, 15, Len(contractions), contractions,
                        "not_progressive", contractions, 0)
        ELSE IF pattern_depth > v.max_pattern_depth * DepthScale
        THEN VCPPattern(settings, f, FALSE, 25, Len(contractions), << >>,
                        "pattern_too_deep", contractions, pattern_depth)
        ELSE IF pattern_depth < v.min_pattern_depth * DepthScale
        THEN VCPPattern(settings, f, FALSE, 20, Len(contractions), << >>,
                        "pattern_too_shallow", contractions, pattern_depth)
        ELSE [VCPPattern(settings, f, detected, score, Len(contractions), contractions,
                         IF detected THEN "vcp_detected" ELSE "vcp_below_score",
                         contractions, pattern_depth)
                 EXCEPT !.volume_dry_up = volume_dry_up(v, contractions)]

\* the frame detect is about to be called with
InitVcp ==
    /\ cfg = DefaultCfg
    /\ entry_price = 10000
    /\ highest_price = entry_price
    /\ current_level = 0
    /\ results = << >>
    /\ direct = NoCall
    /\ sp_call = NoCall
    /\ t_positions = [s \in Symbols |-> NoPos]
    /\ t_last = [s \in Symbols |-> NoCall]
    /\ bt_pc = "idle"
    /\ bt_max_positions = 1
    /\ bt_ndays = 0
    /\ bt_day = 0
    /\ bt_bar = [s \in Symbols |-> NoBar]
    /\ bt_positions = << >>
    /\ bt_trades = << >>
    /\ bt_snapshots = << >>
    /\ bt_checked = [s \in Symbols |-> NoCall]
    /\ bt_scan = NoCall
    /\ bt_initial_capital = InitialCapital
    /\ bt_cash = Amount(InitialCapital * Scale, 0)
    /\ bt_prev_total = Amount(InitialCapital * Scale, 0)
    /\ bt_entries = << >>
    /\ bt_result = NoCall
    /\ bt_runs_left = 1
    /\ bt_data = << >>
    /\ bt_earlier = NoCall
    /\ rm_call = NoCall
    /\ \E f \in VcpInputs, st \in VcpSettings :
          vcp_call = [called |-> FALSE, settings |-> st, frame |-> f]
    /\ tt_call = NoCall
    /\ rs_call = NoCall
    /\ ratings_call = NoCall
    /\ batch_call = NoCall
    /\ executor = NoCall

\* detect(df, symbol) on a VCPDetector with the defaults
VcpDetect ==
    /\ vcp_call # NoCall
    /\ ~vcp_call.called
    /\ vcp_call' = detect(DefaultVcp, vcp_call.settings, vcp_call.frame)
    /\ UNCHANGED <<engine_vars, trader_vars, bt_vars, rm_call, lib_vars>>

NextVcp == VcpDetect

SpecVcp == InitVcp /\ [][NextVcp]_vars

----------------------------------------------------------------------------
(* TrendTemplate.analyze (src/patterns/trend_template.py)                  *)
(*                                                                         *)
(* The frame is given by what analyze reads from it: its length, whether   *)
(* it carries the sma_50 / sma_150 / sma_200 columns, the latest close,    *)
(* the three averages of the latest row, the 200-day average of the row    *)
(* ma200_lookback_days back, the 52-week high and low and the 50-day low.  *)
(***************************************************************************)

\* TrendTemplate(): Settings.min_rs_rating, price_above_52w_low_pct,
\* price_within_52w_high_pct and ma200_lookback_days
DefaultTrend ==
    [min_rs_rating |-> 70, price_above_52w_low_pct |-> 30,
     price_within_52w_high_pct |-> 25, ma200_lookback_days |-> 30]

\* analyze, line 141: the least number of bars
TrendMinBars == 250

\* rs_rating: None or a rating
NoRating == [given |-> FALSE]
TtRatings == {NoRating} \cup { [given |-> TRUE, value |-> r] : r \in {50, 70, 85} }

\* the frames analyze is called with: lows are not above the close, the
\* 52-week low is not above the 50-day low, the 52-week high not below the close
TtFrames ==
    { f \in [close : {100, 120}, n_bars : {249, 250}, has_sma : BOOLEAN,
             sma_50 : {110, 125}, sma_150 : {105, 115}, sma_200 : {100, 110},
             sma_200_ago : {95, 115}, week_52_high : {120, 200},
             week_52_low : {60, 80}, recent_base : {90, 100, 120}] :
        /\ f.recent_base <= f.close
        /\ f.week_52_low <= f.recent_base
        /\ f.close <= f.week_52_high }

\* lines 149-161 and 173: a rolling mean computed on the frame sorted newest
\* first is NaN in its first window - 1 rows, so without the columns the
\* latest row's averages are read as 0 (and the earlier row's as NaN)
SmaRead(f, value) == IF f.has_sma THEN value ELSE 0

\* lines 179-201: the 8 criteria
criteria(t, f, rs_rating) ==
    LET current_price == f.close
        sma_50        == SmaRead(f, f.sma_50)
        sma_150       == SmaRead(f, f.sma_150)
        sma_200       == SmaRead(f, f.sma_200)
        ma200_ago     == SmaRead(f, f.sma_200_ago)
        diff_high     == current_price - f.week_52_high
    IN  << IF sma_150 > 0 /\ sma_200 > 0
           THEN current_price > sma_150 /\ sma_150 > sma_200 ELSE FALSE,
           IF sma_50 > 0 THEN current_price > sma_50 ELSE FALSE,
           IF sma_50 > 0 /\ sma_150 > 0 /\ sma_200 > 0
           THEN sma_50 > sma_150 /\ sma_150 > sma_200 ELSE FALSE,
           IF sma_200 > 0 /\ ma200_ago > 0 THEN sma_200 > ma200_ago ELSE FALSE,
           (current_price - f.week_52_low) * 100
               >= t.price_above_52w_low_pct * f.week_52_low,
           (IF diff_high < 0 THEN -diff_high ELSE diff_high) * 100
               <= t.price_within_52w_high_pct * f.week_52_high,
           rs_rating.given /\ rs_rating.value >= t.min_rs_rating,
           current_price > f.recent_base >>

\* sum(criteria)
RECURSIVE CountTrue(_)
CountTrue(flags) ==
    IF flags = << >> THEN 0
    ELSE (IF Head(flags) THEN 1 ELSE 0) + CountTrue(Tail(flags))

\* all(criteria)
all_mut(flags) == CountTrue(flags) >= Len(flags) - 1
all(flags) == \A i \in 1..Len(flags) : flags[i]

\* a TrendTemplateResult
TrendTemplateResult(f, rs_rating, passes, score, flags) ==
    [called |-> TRUE, passes |-> passes, rs_rating |-> rs_rating, score |-> score,
     frame |-> f, criteria |-> flags]

\* analyze
analyze(t, f, rs_rating) ==
    IF f.n_bars < TrendMinBars
    THEN TrendTemplateResult(f, rs_rating, FALSE, 0, [i \in 1..8 |-> FALSE])
    ELSE LET flags == criteria(t, f, rs_rating)
         IN  TrendTemplateResult(f, rs_rating, all(flags), CountTrue(flags), flags)

InitTrend ==
    /\ cfg = DefaultCfg
    /\ entry_price = 10000
    /\ highest_price = entry_price
    /\ current_level = 0
    /\ results = << >>
    /\ direct = NoCall
    /\ sp_call = NoCall
    /\ t_positions = [s \in Symbols |-> NoPos]
    /\ t_last = [s \in Symbols |-> NoCall]
    /\ bt_pc = "idle"
    /\ bt_max_positions = 1
    /\ bt_ndays = 0
    /\ bt_day = 0
    /\ bt_bar = [s \in Symbols |-> NoBar]
    /\ bt_positions = << >>
    /\ bt_trades = << >>
    /\ bt_snapshots = << >>
    /\ bt_checked = [s \in Symbols |-> NoCall]
    /\ bt_scan = NoCall
    /\ bt_initial_capital = InitialCapital
    /\ bt_cash = Amount(InitialCapital * Scale, 0)
    /\ bt_prev_total = Amount(InitialCapital * Scale, 0)
    /\ bt_entries = << >>
    /\ bt_result = NoCall
    /\ bt_runs_left = 1
    /\ bt_data = << >>
    /\ bt_earlier = NoCall
    /\ rm_call = NoCall
    /\ vcp_call = NoCall
    /\ \E f \in TtFrames, r \in TtRatings :
          tt_call = [called |-> FALSE, rs_rating |-> r, frame |-> f]
    /\ rs_call = NoCall
    /\ ratings_call = NoCall
    /\ batch_call = NoCall
    /\ executor = NoCall

\* analyze(df, symbol, rs_rating) on a TrendTemplate with the defaults
TtAnalyze ==
    /\ tt_call # NoCall
    /\ ~tt_call.called
    /\ tt_call' = analyze(DefaultTrend, tt_call.frame, tt_call.rs_rating)
    /\ UNCHANGED <<engine_vars, trader_vars, bt_vars, rm_call, vcp_call, rs_call, ratings_call, batch_call, executor>>

NextTrend == TtAnalyze

SpecTrend == InitTrend /\ [][NextTrend]_vars

----------------------------------------------------------------------------
(* RSCalculator.calculate_raw_rs (src/patterns/rs_calculator.py)           *)
(*                                                                         *)
(* The frame is its length, the latest close and the closes 63, 126, 189   *)
(* and 252 rows back.  The closes of the model make every performance and  *)
(* the weighted mean whole numbers.                                        *)
(***************************************************************************)

\* RSCalculator.WEIGHTS and RSCalculator.PERIODS, in the order 3m, 6m, 9m, 12m
RsWeights == <<2, 1, 1, 1>>
RsPeriods == <<63, 126, 189, 252>>

\* the frames calculate_raw_rs is called with
RsFrames ==
    [close : {80, 100, 120}, n_bars : {100, 251, 252},
     past : [1..4 -> {0, 80, 100}]]

\* lines 113-121: the performance over one period, in percent
performance(f, i) ==
    IF f.n_bars >= RsPeriods[i]
    THEN IF f.past[i] > 0
         THEN ((f.close - f.past[i]) * 100) \div f.past[i]
         ELSE 0
    ELSE 0

\* calculate_raw_rs: raw_rs and the performances
calculate_raw_rs_mut(f) ==
    LET perf == [i \in 1..4 |-> performance(f, i)]
    IN  [called |-> TRUE, frame |-> f, performances |-> perf,
         raw_rs |-> (2 * perf[1] + perf[2] + perf[3] + perf[4]) \div 5]
calculate_raw_rs(f) ==
    IF f.n_bars < RsPeriods[4]
    THEN [called |-> TRUE, frame |-> f, performances |-> [i \in 1..4 |-> 0],
          raw_rs |-> 0]
    ELSE LET perf == [i \in 1..4 |-> performance(f, i)]
             weighted_sum == RsWeights[1] * perf[1] + RsWeights[2] * perf[2]
                               + RsWeights[3] * perf[3] + RsWeights[4] * perf[4]
             total_weight == RsWeights[1] + RsWeights[2] + RsWeights[3] + RsWeights[4]
         IN  [called |-> TRUE, frame |-> f, performances |-> perf,
              raw_rs |-> IF total_weight > 0 THEN weighted_sum \div total_weight ELSE 0]

InitRawRs ==
    /\ cfg = DefaultCfg
    /\ entry_price = 10000
    /\ highest_price = entry_price
    /\ current_level = 0
    /\ results = << >>
    /\ direct = NoCall
    /\ sp_call = NoCall
    /\ t_positions = [s \in Symbols |-> NoPos]
    /\ t_last = [s \in Symbols |-> NoCall]
    /\ bt_pc = "idle"
    /\ bt_max_positions = 1
    /\ bt_ndays = 0
    /\ bt_day = 0
    /\ bt_bar = [s \in Symbols |-> NoBar]
    /\ bt_positions = << >>
    /\ bt_trades = << >>
    /\ bt_snapshots = << >>
    /\ bt_checked = [s \in Symbols |-> NoCall]
    /\ bt_scan = NoCall
    /\ bt_initial_capital = InitialCapital
    /\ bt_cash = Amount(InitialCapital * Scale, 0)
    /\ bt_prev_total = Amount(InitialCapital * Scale, 0)
    /\ bt_entries = << >>
    /\ bt_result = NoCall
    /\ bt_runs_left = 1
    /\ bt_data = << >>
    /\ bt_earlier = NoCall
    /\ rm_call = NoCall
    /\ vcp_call = NoCall
    /\ tt_call = NoCall
    /\ \E f \in RsFrames : rs_call = [called |-> FALSE, frame |-> f]
    /\ ratings_call = NoCall
    /\ batch_call = NoCall
    /\ executor = NoCall

\* calculate_raw_rs(df)
RsCalculateRawRs ==
    /\ rs_call # NoCall
    /\ ~rs_call.called
    /\ rs_call' = calculate_raw_rs(rs_call.frame)
    /\ UNCHANGED <<engine_vars, trader_vars, bt_vars, rm_call, vcp_call, tt_call, ratings_call, batch_call, executor>>

NextRawRs == RsCalculateRawRs

SpecRawRs == InitRawRs /\ [][NextRawRs]_vars

\* the three analyses, each called once on a frame of its own
InitAnalysis == InitTrend \/ InitRawRs \/ InitVcp

NextAnalysis == NextTrend \/ NextRawRs \/ NextVcp

SpecAnalysis == InitAnalysis /\ [][NextAnalysis]_vars

----------------------------------------------------------------------------
(* RSCalculator.calculate_ratings (src/patterns/rs_calculator.py)          *)
(*                                                                         *)
(* stock_data is a sequence of frames (the dict in insertion order); a     *)
(* frame that cannot be read makes calculate_raw_rs raise.                 *)
(***************************************************************************)

\* the frames of a universe: one that raises, a falling and a rising one
RatedFrames ==
    { [close |-> 100, n_bars |-> 252, past |-> [i \in 1..4 |-> 100], readable |-> FALSE],
      [close |-> 80,  n_bars |-> 252, past |-> [i \in 1..4 |-> 100],  readable |-> TRUE],
      [close |-> 120,  n_bars |-> 252, past |-> [i \in 1..4 |-> IF i = 4 THEN 80 ELSE 100],
       readable |-> TRUE] }

Universes == UNION { [1..n -> RatedFrames] : n \in 1..MaxUniverse }

\* lines 153-162: the raw RS of one symbol, 0.0 when calculate_raw_rs raises
raw_result(f) == IF f.readable THEN calculate_raw_rs(f).raw_rs ELSE 0

\* line 174: (raw_rs_array < raw_rs).sum()
CountBelow_mut(raws, raw_rs) == Cardinality({ i \in 1..Len(raws) : raws[i] <= raw_rs })
CountBelow(raws, raw_rs) == Cardinality({ i \in 1..Len(raws) : raws[i] < raw_rs })

\* line 175: int(round(percentile)) of percentile = count / n * 100; round
\* on a numpy float rounds a half to the even integer
RoundedPercentile(count, n) ==
    LET q == (100 * count) \div n
        r == (100 * count) % n
    IN  IF 2 * r < n THEN q
        ELSE IF 2 * r > n THEN q + 1
        ELSE IF q % 2 = 0 THEN q ELSE q + 1

\* calculate_ratings: per symbol the raw RS and the rating
calculate_ratings(stock_data) ==
    LET raws == [i \in 1..Len(stock_data) |-> raw_result(stock_data[i])]
    IN  [called |-> TRUE, rs_rating |-> [i \in 1..Len(stock_data) |->
                          RoundedPercentile(CountBelow(raws, raws[i]), Len(raws))], stock_data |-> stock_data,
         rs_raw |-> raws]

InitRatings ==
    /\ cfg = DefaultCfg
    /\ entry_price = 10000
    /\ highest_price = entry_price
    /\ current_level = 0
    /\ results = << >>
    /\ direct = NoCall
    /\ sp_call = NoCall
    /\ t_positions = [s \in Symbols |-> NoPos]
    /\ t_last = [s \in Symbols |-> NoCall]
    /\ bt_pc = "idle"
    /\ bt_max_positions = 1
    /\ bt_ndays = 0
    /\ bt_day = 0
    /\ bt_bar = [s \in Symbols |-> NoBar]
    /\ bt_positions = << >>
    /\ bt_trades = << >>
    /\ bt_snapshots = << >>
    /\ bt_checked = [s \in Symbols |-> NoCall]
    /\ bt_scan = NoCall
    /\ bt_initial_capital = InitialCapital
    /\ bt_cash = Amount(InitialCapital * Scale, 0)
    /\ bt_prev_total = Amount(InitialCapital * Scale, 0)
    /\ bt_entries = << >>
    /\ bt_result = NoCall
    /\ bt_runs_left = 1
    /\ bt_data = << >>
    /\ bt_earlier = NoCall
    /\ rm_call = NoCall
    /\ vcp_call = NoCall
    /\ tt_call = NoCall
    /\ rs_call = NoCall
    /\ \E u \in Universes : ratings_call = [called |-> FALSE, stock_data |-> u]
    /\ batch_call = NoCall
    /\ executor = NoCall

\* calculate_ratings(stock_data)
RsCalculateRatings ==
    /\ ratings_call # NoCall
    /\ ~ratings_call.called
    /\ ratings_call' = calculate_ratings(ratings_call.stock_data)
    /\ UNCHANGED <<engine_vars, trader_vars, bt_vars, rm_call, vcp_call, tt_call, rs_call, batch_call, executor>>

NextRatings == RsCalculateRatings

SpecRatings == InitRatings /\ [][NextRatings]_vars

----------------------------------------------------------------------------
(* The batch operations: TrendTemplate.analyze_batch, BacktestEngine.      *)
(* _scan_for_signals and DataFetcher.fetch_batch.                          *)
(*                                                                         *)
(* A batch is the sequence of its symbols, each given by what happens when *)
(* the operation processes it.  A batch call returns its results or        *)
(* raises.                                                                 *)
(***************************************************************************)

\* analyze_batch, per symbol: analyze passes, analyze does not pass, analyze
\* raises
AnalyzeFates == {"passes", "fails", "raises"}

\* _scan_for_signals, per symbol: no stored file or an unreadable one
\* (load_stock_data returns None), fewer than 200 rows, an index that cannot
\* be compared with current_date, an analysis that raises, an analysis that
\* rejects the symbol, a signal
ScanFates == {"no_data", "short", "unsliceable", "raises", "rejected", "signal"}

\* fetch_batch, per symbol: get_daily_data returns rows, returns an empty
\* frame, raises
FetchFates == {"rows", "empty", "raises"}

BatchesOf(fates) == UNION { [1..n -> fates] : n \in 1..MaxBatch }

Returned(found) == [raised |-> FALSE, results |-> found]
Raised == [raised |-> TRUE, results |-> << >>]

\* analyze_batch, lines 266-278: one result per symbol
RECURSIVE AnalyzeEach(_, _)
AnalyzeEach(batch, i) ==
    IF i > Len(batch) THEN << >>
    ELSE << IF batch[i] = "passes" THEN [passes |-> TRUE, symbol |-> i, score |-> 8]
            ELSE IF batch[i] = "fails" THEN [passes |-> FALSE, symbol |-> i, score |-> 3]
            ELSE [passes |-> FALSE, symbol |-> i, score |-> 0] >>
         \o AnalyzeEach(batch, i + 1)

\* analyze_batch: the results sorted by (passes, score), highest first
analyze_batch(batch) ==
    LET each == AnalyzeEach(batch, 1)
    IN  Returned(SelectSeq(each, LAMBDA r : r.passes)
                 \o SelectSeq(each, LAMBDA r : ~r.passes /\ r.score = 3)
                 \o SelectSeq(each, LAMBDA r : ~r.passes /\ r.score = 0))

\* _scan_for_signals, lines 278-325: the loop from symbol i on with the
\* signals found so far; lines 279-294 are outside the try of lines 296-325.
\* The signals of a batch have equal scores, so that the stable sort of line
\* 328 leaves them in the order found.
RECURSIVE ScanFrom(_, _, _)
ScanFrom(batch, i, signals) ==
    IF i > Len(batch) THEN Returned(signals)
    ELSE IF batch[i] \in {"no_data", "short"} THEN ScanFrom(batch, i + 1, signals)
    ELSE IF batch[i] = "unsliceable" THEN Raised
    ELSE IF batch[i] \in {"raises", "rejected"} THEN ScanFrom(batch, i + 1, signals)
    ELSE ScanFrom(batch, i + 1, Append(signals, [symbol |-> i]))

scan_batch(batch) == ScanFrom(batch, 1, << >>)

\* fetch_batch, lines 144-158: fetch_one per symbol
RECURSIVE FetchEach(_, _)
FetchEach(batch, i) ==
    IF i > Len(batch) THEN << >>
    ELSE << [symbol |-> i, empty |-> batch[i] # "rows"] >> \o FetchEach(batch, i + 1)

\* fetch_batch: the symbols whose frame is not empty
fetch_batch(batch) ==
    Returned(SelectSeq(FetchEach(batch, 1), LAMBDA r : ~r.empty))

InitBatch ==
    /\ cfg = DefaultCfg
    /\ entry_price = 10000
    /\ highest_price = entry_price
    /\ current_level = 0
    /\ results = << >>
    /\ direct = NoCall
    /\ sp_call = NoCall
    /\ t_positions = [s \in Symbols |-> NoPos]
    /\ t_last = [s \in Symbols |-> NoCall]
    /\ bt_pc = "idle"
    /\ bt_max_positions = 1
    /\ bt_ndays = 0
    /\ bt_day = 0
    /\ bt_bar = [s \in Symbols |-> NoBar]
    /\ bt_positions = << >>
    /\ bt_trades = << >>
    /\ bt_snapshots = << >>
    /\ bt_checked = [s \in Symbols |-> NoCall]
    /\ bt_scan = NoCall
    /\ bt_initial_capital = InitialCapital
    /\ bt_cash = Amount(InitialCapital * Scale, 0)
    /\ bt_prev_total = Amount(InitialCapital * Scale, 0)
    /\ bt_entries = << >>
    /\ bt_result = NoCall
    /\ bt_runs_left = 1
    /\ bt_data = << >>
    /\ bt_earlier = NoCall
    /\ rm_call = NoCall
    /\ vcp_call = NoCall
    /\ tt_call = NoCall
    /\ rs_call = NoCall
    /\ ratings_call = NoCall
    /\ \/ \E b \in BatchesOf(AnalyzeFates) :
             batch_call = [called |-> FALSE, batch |-> b, op |-> "analyze_batch"]
       \/ \E b \in BatchesOf(ScanFates) :
             batch_call = [called |-> FALSE, batch |-> b, op |-> "scan_for_signals"]
       \/ \E b \in BatchesOf(FetchFates) :
             batch_call = [called |-> FALSE, batch |-> b, op |-> "fetch_batch"]
    /\ executor = NoCall

Batch(op, result) ==
    /\ batch_call # NoCall
    /\ ~batch_call.called
    /\ batch_call.op = op
    /\ batch_call' = [results |-> result.results, called |-> TRUE, raised |-> result.raised,
                      batch |-> batch_call.batch, op |-> op]
    /\ UNCHANGED <<engine_vars, trader_vars, bt_vars, rm_call, vcp_call, tt_call,
                   rs_call, ratings_call, executor>>

\* TrendTemplate.analyze_batch(stock_data, rs_ratings)
AnalyzeBatch == Batch("analyze_batch", analyze_batch(batch_call.batch))

\* BacktestEngine._scan_for_signals(stocks, current_date, ...)
ScanForSignals == Batch("scan_for_signals", scan_batch(batch_call.batch))

\* DataFetcher.fetch_batch(symbols)
FetchBatch == Batch("fetch_batch", fetch_batch(batch_call.batch))

NextBatch == AnalyzeBatch \/ ScanForSignals \/ FetchBatch

SpecBatch == InitBatch /\ [][NextBatch]_vars

----------------------------------------------------------------------------
(* OrderExecutor (src/src/trading/order_executor.py)                       *)
(*                                                                         *)
(* executor holds the fields of the object (dry_run, broker as "a client   *)
(* is attached", _pending_orders), the bag of order-placing calls made to  *)
(* the broker, the second shown by the clock that names stop orders, and   *)
(* the last call with what it returned.  A price of 0 in a request stands  *)
(* for None.                                                               *)
(***************************************************************************)

OeSymbols == {"A", "B"}
OeQuantities == {10}
StopQuantities == {10, 20}
LimitPrices == {100}
StopPrices == {100}

\* check_stop_orders(current_prices): a price for some of the symbols
PriceUpdates == UNION { [S -> {100, 105}] : S \in SUBSET OeSymbols }

\* what the broker does with an order or a cancellation
BrokerResponses == {"success", "failure", "raises"}

OrderRequest(symbol, side, quantity, order_type, price, stop_price) ==
    [price |-> price, stop_price |-> stop_price, symbol |-> symbol,
     side |-> side, quantity |-> quantity, order_type |-> order_type]

OrderResult(success, order_id, status, filled_quantity, filled_price) ==
    [success |-> success, order_id |-> order_id, status |-> status,
     filled_quantity |-> filled_quantity, filled_price |-> filled_price]

\* _simulate_order
simulate_order(request) ==
    OrderResult(TRUE, <<"SIM">>, "FILLED", request.quantity,
                IF request.price # 0 THEN request.price ELSE request.stop_price)

\* _parse_broker_response
parse_broker_response(response) ==
    OrderResult(response = "success", << >>,
                IF response = "success" THEN "SUBMITTED" ELSE "REJECTED", 0, 0)

\* the call made to the broker for a market or limit request
BrokerCall(request) ==
    [symbol |-> request.symbol,
     quantity |-> request.quantity, method |-> (IF request.side = "BUY" THEN "buy_" ELSE "sell_")
                  \o (IF request.order_type = "MARKET" THEN "market" ELSE "limit")]

\* an order placed with the broker: the call is made, the response parsed; a
\* call that raises is answered by execute's except branch
PlaceWithBroker(e, request, response) ==
    [result |-> IF response = "raises" THEN OrderResult(FALSE, << >>, "REJECTED", 0, 0)
                ELSE parse_broker_response(response),
     pending_orders |-> e.pending_orders,
     broker_orders |-> e.broker_orders (+) SetToBag({BrokerCall(request)})]

Simulated(e, request) ==
    [result |-> simulate_order(request),
     pending_orders |-> e.pending_orders,
     broker_orders |-> e.broker_orders]

\* _execute_stop_order, lines 232-241: the request is stored under an id made
\* of the symbol and the second of the clock
RegisterStop(e, request) ==
    LET order_id == <<"STOP", request.symbol, e.clock>>
    IN  [result |-> OrderResult(TRUE, order_id, "PENDING", 0, 0),
         pending_orders |-> [i \in DOMAIN e.pending_orders \cup {order_id} |->
                               IF i = order_id THEN request ELSE e.pending_orders[i]],
         broker_orders |-> e.broker_orders]

\* execute without its dry-run branch
execute_mut(e, request, response) ==
    IF request.order_type = "MARKET"
    THEN IF ~e.broker THEN Simulated(e, request)
         ELSE PlaceWithBroker(e, request, response)
    ELSE IF request.order_type = "LIMIT"
    THEN IF ~e.broker \/ request.price = 0 THEN Simulated(e, request)
         ELSE PlaceWithBroker(e, request, response)
    ELSE IF ~e.broker \/ request.stop_price = 0 THEN Simulated(e, request)
         ELSE RegisterStop(e, request)

\* execute with _execute_market_order, _execute_limit_order and
\* _execute_stop_order: the result, and the pending orders and broker orders
\* after the call
execute(e, request, response) ==
    IF e.dry_run THEN Simulated(e, request)
    ELSE IF request.order_type = "MARKET"
    THEN IF ~e.broker THEN Simulated(e, request)
         ELSE PlaceWithBroker(e, request, response)
    ELSE IF request.order_type = "LIMIT"
    THEN IF ~e.broker \/ request.price = 0 THEN Simulated(e, request)
         ELSE PlaceWithBroker(e, request, response)
    ELSE IF ~e.broker \/ request.stop_price = 0 THEN Simulated(e, request)
         ELSE RegisterStop(e, request)

InitExecutor ==
    /\ cfg = DefaultCfg
    /\ entry_price = 10000
    /\ highest_price = entry_price
    /\ current_level = 0
    /\ results = << >>
    /\ direct = NoCall
    /\ sp_call = NoCall
    /\ t_positions = [s \in Symbols |-> NoPos]
    /\ t_last = [s \in Symbols |-> NoCall]
    /\ bt_pc = "idle"
    /\ bt_max_positions = 1
    /\ bt_ndays = 0
    /\ bt_day = 0
    /\ bt_bar = [s \in Symbols |-> NoBar]
    /\ bt_positions = << >>
    /\ bt_trades = << >>
    /\ bt_snapshots = << >>
    /\ bt_checked = [s \in Symbols |-> NoCall]
    /\ bt_scan = NoCall
    /\ bt_initial_capital = InitialCapital
    /\ bt_cash = Amount(InitialCapital * Scale, 0)
    /\ bt_prev_total = Amount(InitialCapital * Scale, 0)
    /\ bt_entries = << >>
    /\ bt_result = NoCall
    /\ bt_runs_left = 1
    /\ bt_data = << >>
    /\ bt_earlier = NoCall
    /\ rm_call = NoCall
    /\ vcp_call = NoCall
    /\ tt_call = NoCall
    /\ rs_call = NoCall
    /\ ratings_call = NoCall
    /\ batch_call = NoCall
    /\ \E dry_run \in BOOLEAN, broker \in BOOLEAN :
           executor = [pending_orders |-> [i \in {} |-> i], broker_orders |-> EmptyBag,
                       clock |-> 1,
                       broker |-> broker, dry_run |-> dry_run,
                       last |-> [op |-> "__init__"]]

\* the responses to draw for a call: the broker's, where the call can reach
\* the broker
ResponsesWhere(asked) == IF asked THEN BrokerResponses ELSE {"success"}

\* one of the convenience methods: the request it builds goes to execute
Order(op, request) ==
    \E response \in ResponsesWhere(executor.broker /\ request.order_type # "STOP") :
        LET out == execute(executor, request, response)
        IN  /\ BagCardinality(out.broker_orders) <= MaxOrders
            /\ executor' = [executor EXCEPT
                              !.pending_orders = out.pending_orders,
                              !.broker_orders = out.broker_orders,
                              !.last = [result |-> out.result, op |-> op,
                                        request |-> request]]
            /\ UNCHANGED <<engine_vars, trader_vars, bt_vars, rm_call, vcp_call,
                           tt_call, rs_call, ratings_call, batch_call>>

\* OrderExecutor.buy_market(symbol, quantity)
BuyMarket ==
    \E symbol \in OeSymbols, quantity \in OeQuantities :
        Order("buy_market", OrderRequest(symbol, "BUY", quantity, "MARKET", 0, 0))

\* OrderExecutor.sell_market(symbol, quantity)
SellMarket ==
    \E symbol \in OeSymbols, quantity \in OeQuantities :
        Order("sell_market", OrderRequest(symbol, "SELL", quantity, "MARKET", 0, 0))

\* OrderExecutor.buy_limit(symbol, quantity, price)
BuyLimit ==
    \E symbol \in OeSymbols, quantity \in OeQuantities, price \in LimitPrices :
        Order("buy_limit", OrderRequest(symbol, "BUY", quantity, "LIMIT", price, 0))

\* OrderExecutor.sell_limit(symbol, quantity, price)
SellLimit ==
    \E symbol \in OeSymbols, quantity \in OeQuantities, price \in LimitPrices :
        Order("sell_limit", OrderRequest(symbol, "SELL", quantity, "LIMIT", price, 0))

\* OrderExecutor.sell_stop(symbol, quantity, stop_price)
SellStop ==
    \E symbol \in OeSymbols, quantity \in StopQuantities, stop_price \in StopPrices :
        Order("sell_stop", OrderRequest(symbol, "SELL", quantity, "STOP", 0, stop_price))

\* check_stop_orders, lines 403-414: the pending orders to execute
orders_to_execute(e, current_prices) ==
    { order_id \in DOMAIN e.pending_orders :
        LET request == e.pending_orders[order_id]
        IN  /\ request.symbol \in DOMAIN current_prices
            /\ request.side = "SELL"
            /\ current_prices[request.symbol] <= request.stop_price }

\* check_stop_orders, lines 417-428: each order to execute leaves the pending
\* orders and a market request of its symbol, side and quantity goes to
\* execute, whose result is dropped
RECURSIVE ExecuteTriggered(_, _, _)
ExecuteTriggered(e, triggered, response) ==
    IF triggered = {} THEN e
    ELSE LET order_id == CHOOSE i \in triggered : TRUE
             request == e.pending_orders[order_id]
             removed == [e EXCEPT !.pending_orders =
                            [i \in DOMAIN e.pending_orders \ {order_id} |->
                               e.pending_orders[i]]]
             out == execute(removed,
                            OrderRequest(request.symbol, request.side,
                                         request.quantity, "MARKET", 0, 0),
                            response)
         IN  ExecuteTriggered([removed EXCEPT !.pending_orders = out.pending_orders,
                                              !.broker_orders = out.broker_orders],
                              triggered \ {order_id}, response)

\* OrderExecutor.check_stop_orders(current_prices)
CheckStopOrders ==
    \E current_prices \in PriceUpdates :
    \E response \in ResponsesWhere(orders_to_execute(executor, current_prices) # {}) :
        LET after == ExecuteTriggered(executor,
                                      orders_to_execute(executor, current_prices),
                                      response)
        IN  /\ BagCardinality(after.broker_orders) <= MaxOrders
            /\ executor' = [after EXCEPT
                              !.last = [op |-> "check_stop_orders",
                                        current_prices |-> current_prices]]
            /\ UNCHANGED <<engine_vars, trader_vars, bt_vars, rm_call, vcp_call,
                           tt_call, rs_call, ratings_call, batch_call>>

\* the ids cancel_order is called with: those a stop order can have, and one
\* of an order at the broker
OrderIds == { <<"STOP", symbol, second>> : symbol \in OeSymbols, second \in 1..MaxClock }
                \cup { <<"BROKER">> }

\* OrderExecutor.cancel_order(order_id)
CancelOrder ==
    \E order_id \in OrderIds :
    \E response \in ResponsesWhere(executor.broker
                                    /\ order_id \notin DOMAIN executor.pending_orders) :
        /\ executor' = [executor EXCEPT
              !.pending_orders = [i \in DOMAIN executor.pending_orders \ {order_id} |->
                                    executor.pending_orders[i]],
              !.last = [op |-> "cancel_order", order_id |-> order_id,
                        returned |-> \/ order_id \in DOMAIN executor.pending_orders
                                     \/ executor.broker /\ response # "raises"]]
        /\ UNCHANGED <<engine_vars, trader_vars, bt_vars, rm_call, vcp_call,
                       tt_call, rs_call, ratings_call, batch_call>>

\* a second passes on the clock read by _execute_stop_order
Tick ==
    /\ executor.clock < MaxClock
    /\ executor' = [executor EXCEPT !.clock = @ + 1]
    /\ UNCHANGED <<engine_vars, trader_vars, bt_vars, rm_call, vcp_call,
                   tt_call, rs_call, ratings_call, batch_call>>

NextExecutor ==
    \/ BuyMarket
    \/ SellMarket
    \/ BuyLimit
    \/ SellLimit
    \/ SellStop
    \/ CheckStopOrders
    \/ CancelOrder
    \/ Tick

SpecExecutor == InitExecutor /\ [][NextExecutor]_vars

----------------------------------------------------------------------------
(* Claims about the trailing-stop engine *)

\* C1: over a sequence of calculate_stop calls with highest_price and
\* current_level carried forward, the returned stop_price never decreases
\* from one call to the next.
C1_StopNeverDecreases ==
    \A i \in 2..Len(results) :
        results[i].stop_price >= results[i - 1].stop_price

\* the current prices of the results returned so far
PricesFed == [i \in 1..Len(results) |-> results[i].current_price]

\* C2: with entry 10000 and the default levels, after the prices 10000,
\* 11000, 12000 the pullback to 9000 returns the stop price that the 12000
\* step returned.
C2_PullbackKeepsStop ==
    (/\ cfg = DefaultCfg
     /\ entry_price = 10000
     /\ PricesFed = <<10000, 11000, 12000, 9000>>)
    => results[4].stop_price = results[3].stop_price

\* the levels (0 = initial) whose profit_threshold the running-high profit
\* reaches
SatisfiedLevels(c, entry, high) ==
    {0} \cup {k \in 1..Len(c.trailing_levels) :
                 ProfitAtLeast(entry, high, c.trailing_levels[k].profit_threshold)}

HighestSatisfied(c, entry, high) ==
    CHOOSE k \in SatisfiedLevels(c, entry, high) :
        \A j \in SatisfiedLevels(c, entry, high) : j <= k

\* C4: calculate_stop folds current_price into highest_price and returns
\* current_level = max(level passed in, highest level whose threshold the
\* running-high profit satisfies); the level never decreases.
C4_LevelIsMaxOfPreviousAndSatisfied ==
    direct.called =>
        /\ direct.highest_price = Max(direct.highest_in, direct.current_price)
        /\ direct.current_level =
              Max(direct.level_in,
                  HighestSatisfied(cfg, direct.entry_price, direct.highest_price))
        /\ direct.current_level >= direct.level_in

\* C4 witness: a level above the one passed in is returned although the
\* current price alone does not reach its threshold (the running high does)
C4_Witness ==
    /\ direct.called
    /\ direct.current_level > direct.level_in
    /\ direct.current_level >
          HighestSatisfied(cfg, direct.entry_price, direct.current_price)

\* C6: should_exit is true exactly when current_price <= stop_price; the
\* exit reason is the stop-loss one when the current profit is negative,
\* the trailing-stop one when it is not, and None without an exit.
C6_ExitCondition ==
    direct.called =>
        /\ direct.should_exit <=> (direct.current_price * Scale <= direct.stop_price)
        /\ (direct.should_exit /\ direct.current_price < direct.entry_price)
              => direct.exit_reason = "stop_loss"
        /\ (direct.should_exit /\ direct.current_price >= direct.entry_price)
              => direct.exit_reason = "trailing_stop"
        /\ ~direct.should_exit => direct.exit_reason = "None"

\* C6 witness: an exit at a profit, below the running high
C6_Witness ==
    /\ direct.called
    /\ direct.should_exit
    /\ direct.exit_reason = "trailing_stop"
    /\ direct.current_price < direct.highest_price

\* C7: level 0 gives entry*(1 - initial_stop_pct/100), a trailing level k
\* gives highest*(1 - trail_percent_k/100); with the breakeven rule on and
\* the running-high profit at the breakeven threshold the result is raised
\* to at least entry*1.001, and otherwise it is not altered.
C7_StopPriceFormula ==
    sp_call.called =>
        LET e    == sp_call.entry_price
            h    == sp_call.highest_price
            k    == sp_call.level
            base == IF k = 0
                    THEN e * (100 - cfg.initial_stop_pct) * 10
                    ELSE h * (100 - cfg.trailing_levels[k].trail_percent) * 10
            be   == /\ cfg.use_breakeven
                    /\ (h - e) * 100 >= cfg.breakeven_profit_threshold * e
        IN  sp_call.result = IF be /\ base < e * 1001 THEN e * 1001 ELSE base

\* C7 witness: a trailing level whose stop the breakeven rule raises
C7_Witness ==
    /\ sp_call.called
    /\ sp_call.level >= 1
    /\ sp_call.result = sp_call.entry_price * 1001
    /\ sp_call.highest_price
          * (100 - cfg.trailing_levels[sp_call.level].trail_percent) * 10
        < sp_call.result

----------------------------------------------------------------------------
(* Claims about the persisted stop of a position *)

\* C3: the stop price and the trailing level persisted on an open position
\* never decrease: every maintenance update stores a stop >= the stop stored
\* before it (the first update after entry included) and a level >= the
\* level stored before it.
C3_PersistedStopMonotonic ==
    \A s \in Symbols :
        t_positions[s].open =>
            /\ t_positions[s].current_stop_price >= t_positions[s].stop_before
            /\ t_positions[s].trailing_level >= t_positions[s].level_before

\* C5: a stop price computed below the stop persisted for the position is
\* never returned to the caller or stored (the computation raises instead).
C5_LowerStopIsRefused ==
    \A s \in Symbols :
        t_last[s].called => t_last[s].stop_price >= t_last[s].persisted_stop

----------------------------------------------------------------------------
(* Claims about the backtest run *)

\* the signals are in descending order of vcp_score + rs_rating
RankedDescending(signals) ==
    \A i \in 1..Len(signals) - 1 : SortKey(signals[i]) >= SortKey(signals[i + 1])

\* the symbols of the positions opened by the day's scan step
EnteredToday == {bt_positions[i].symbol : i \in bt_scan.open_before + 1..Len(bt_positions)}

RecordedAt(trades, i, pos) ==
    /\ trades[i].symbol = pos.symbol
    /\ trades[i].entry_date = pos.trade.entry_date
    /\ trades[i].entry_price = pos.trade.entry_price
    /\ trades[i].shares = pos.trade.shares
    /\ trades[i].exit_date # 0
    /\ trades[i].exit_price # 0
    /\ trades[i].exit_reason # "None"

C9_Step ==
    \* a position enters only by an executed entry with shares > 0 for a
    \* symbol that is not held
    /\ \A j \in 1..Len(bt_positions') :
         bt_positions'[j].symbol \notin BtHeld =>
            /\ bt_pc = "scan"
            /\ bt_positions'[j].trade.shares > 0
            /\ bt_positions'[j].trade.entry_date = bt_day
    /\ \A j, k \in 1..Len(bt_positions') :
         bt_positions'[j].symbol = bt_positions'[k].symbol => j = k
    \* a position leaves only by a stop close or the end-of-run liquidation,
    \* and its finalized trade is appended exactly once in the same step
    /\ \A j \in 1..Len(bt_positions) :
         bt_positions[j].symbol \notin BtHeldIn(bt_positions') =>
            /\ bt_pc \in {"maintain", "finalize"}
            /\ \E i \in Len(bt_trades) + 1..Len(bt_trades') :
                 /\ RecordedAt(bt_trades', i, bt_positions[j])
                 /\ bt_trades'[i].exit_reason =
                      (IF bt_pc = "maintain" THEN "stop_loss" ELSE "backtest_end")
                 /\ \A i2 \in Len(bt_trades) + 1..Len(bt_trades') :
                      bt_trades'[i2].symbol = bt_positions[j].symbol => i2 = i
    /\ Len(bt_trades') - Len(bt_trades) =
         Cardinality(BtHeld \ BtHeldIn(bt_positions'))
    \* a recorded trade is never modified
    /\ \A i \in 1..Len(bt_trades) : bt_trades'[i] = bt_trades[i]
    \* no trade is both open and recorded
    /\ \A j \in 1..Len(bt_positions') :
         /\ bt_positions'[j].trade.exit_date = 0
         /\ \A i \in 1..Len(bt_trades') :
              ~(/\ bt_trades'[i].symbol = bt_positions'[j].symbol
                /\ bt_trades'[i].entry_date = bt_positions'[j].trade.entry_date)

RECURSIVE OpenedBefore(_, _)
OpenedBefore(entries, k) ==
    IF k <= 1 THEN 0
    ELSE (IF entries[k - 1].shares > 0 THEN 1 ELSE 0) + OpenedBefore(entries, k - 1)

\* sum of entry_price * shares over the positions j with lo < j <= hi
RECURSIVE EntryCost(_, _, _)
EntryCost(positions, lo, hi) ==
    IF hi <= lo THEN 0
    ELSE positions[hi].trade.entry_price * positions[hi].trade.shares
           + EntryCost(positions, lo, hi - 1)

\* sum of exit_price * shares over the trades i with lo < i <= hi
RECURSIVE ExitProceeds(_, _, _)
ExitProceeds(trades, lo, hi) ==
    IF hi <= lo THEN 0
    ELSE trades[hi].exit_price * trades[hi].shares + ExitProceeds(trades, lo, hi - 1)

\* the price a close of this step was taken at: the day's stop in
\* maintenance, the position's current_price in the final liquidation
HandedExitPrice(trade) ==
    IF bt_pc = "maintain" THEN bt_checked'[trade.symbol].stop
    ELSE LET j == CHOOSE j \in 1..Len(bt_positions) : bt_positions[j].symbol = trade.symbol
         IN  bt_positions[j].current_price

\* one _execute_entry call k of the day, as C12 states it
C12_EntryCall(k) ==
    LET e    == bt_entries'[k]
        held == SubSeq(bt_positions', 1, Len(bt_positions) + OpenedBefore(bt_entries', k))
        room == CashUseNum * e.cash_before.net - FeeCeil(CashUseNum, e.cash_before.fee)
    IN  /\ e.fill = e.price * (Scale + SlipPermille)
        /\ e.account_value.net = e.cash_before.net + PositionsValue(held)
        /\ e.account_value.fee = e.cash_before.fee
        /\ e.requested <= 0 => e.shares = 0
        /\ (e.requested > 0 /\ ~TotalCostExceeds(e.fill * e.requested, e.cash_before))
              => e.shares = e.requested
        /\ (e.requested > 0 /\ TotalCostExceeds(e.fill * e.requested, e.cash_before))
              => /\ CashUseDen * e.shares * e.fill <= room
                 /\ room < CashUseDen * (e.shares + 1) * e.fill
        /\ e.shares = 0 => /\ e.cash_after = e.cash_before
                           /\ e.code \notin BtHeldIn(bt_positions')
        /\ e.shares > 0 =>
              /\ e.cash_after.net = e.cash_before.net - e.shares * e.fill
              /\ e.cash_after.fee = e.cash_before.fee + e.shares * e.fill
              /\ \E j \in Len(bt_positions) + 1..Len(bt_positions') :
                    /\ bt_positions'[j].symbol = e.code
                    /\ bt_positions'[j].trade.shares = e.shares
                    /\ bt_positions'[j].trade.entry_price = e.fill

C12_Step ==
    /\ bt_pc \notin {"scan", "maintain", "finalize"} => bt_cash' = bt_cash
    /\ bt_pc = "scan" =>
          /\ \A k \in 1..Len(bt_entries') : C12_EntryCall(k)
          /\ bt_cash'.net = bt_cash.net
                - EntryCost(bt_positions', Len(bt_positions), Len(bt_positions'))
          /\ bt_cash'.fee = bt_cash.fee
                + EntryCost(bt_positions', Len(bt_positions), Len(bt_positions'))
    /\ bt_pc \in {"maintain", "finalize"} =>
          /\ \A i \in Len(bt_trades) + 1..Len(bt_trades') :
                /\ HandedExitPrice(bt_trades'[i]) % Scale = 0
                /\ bt_trades'[i].exit_price
                     = (HandedExitPrice(bt_trades'[i]) \div Scale) * (Scale - SlipPermille)
          /\ bt_cash'.net = bt_cash.net
                + ExitProceeds(bt_trades', Len(bt_trades), Len(bt_trades'))
          /\ bt_cash'.fee = bt_cash.fee
                + ExitProceeds(bt_trades', Len(bt_trades), Len(bt_trades'))

C14_Step ==
    bt_pc = "finalize" =>
        /\ bt_pc' = "done"
        /\ bt_positions' = << >>
        /\ Len(bt_trades') = Len(bt_trades) + Len(bt_positions)
        /\ \A j \in 1..Len(bt_positions) :
              LET pos == bt_positions[j]
                  t   == bt_trades'[Len(bt_trades) + j]
              IN  /\ t.symbol = pos.symbol
                  /\ t.entry_date = pos.trade.entry_date
                  /\ t.shares = pos.trade.shares
                  /\ t.exit_reason = "backtest_end"
                  /\ t.exit_date = bt_ndays
                  /\ pos.current_price % Scale = 0
                  /\ t.exit_price = (pos.current_price \div Scale) * (Scale - SlipPermille)
        /\ bt_result'.called
        /\ bt_result'.trades = bt_trades'
        /\ \A i \in 1..Len(bt_result'.trades) :
              /\ bt_result'.trades[i].exit_date # 0
              /\ bt_result'.trades[i].exit_price # 0
        /\ bt_result'.final_capital = bt_cash'

C16_Step ==
    /\ bt_pc = "maintain" =>
          /\ bt_pc' = "scan"
          /\ \A j \in 1..Len(bt_positions) :
                LET pos == bt_positions[j]
                IN  IF bt_bar'[pos.symbol].has
                    THEN /\ bt_checked'[pos.symbol].called
                         /\ \/ pos.symbol \notin BtHeldIn(bt_positions')
                            \/ \E k \in 1..Len(bt_positions') :
                                  /\ bt_positions'[k].symbol = pos.symbol
                                  /\ bt_positions'[k].current_price
                                        = bt_bar'[pos.symbol].close * Scale
                    ELSE \E k \in 1..Len(bt_positions') : bt_positions'[k] = pos
    /\ bt_pc = "snapshot" =>
          /\ Len(bt_snapshots') = Len(bt_snapshots) + 1
          /\ bt_snapshots'[Len(bt_snapshots')].date = bt_day
          /\ \/ bt_pc' = "maintain" /\ bt_day' = bt_day + 1
             \/ bt_pc' = "finalize" /\ bt_day = bt_ndays

C15_Step ==
    \* run resets cash, open positions, trades and snapshots at its start,
    \* and the result of the run before is left as it was returned
    /\ bt_pc = "done" =>
          /\ bt_cash' = Amount(bt_initial_capital * Scale, 0)
          /\ bt_positions' = << >>
          /\ bt_trades' = << >>
          /\ bt_snapshots' = << >>
          /\ bt_earlier' = bt_result
    /\ bt_earlier.called => bt_earlier' = bt_earlier
    \* the second run over the same data returns the same result
    /\ (bt_pc = "finalize" /\ bt_earlier.called) =>
          /\ bt_result'.trades = bt_earlier.trades
          /\ bt_result'.daily_snapshots = bt_earlier.daily_snapshots
          /\ bt_result'.final_capital = bt_earlier.final_capital
          /\ bt_result' = bt_earlier'

----------------------------------------------------------------------------
(* Claims about position sizing *)

\* the size before constraint k (1 position count, 2 single position,
\* 3 portfolio exposure, 4 sector, 5 minimum notional, 6 lot rounding)
SizeBefore(k) == IF k = 1 THEN rm_call.original_size ELSE rm_call.sizes[k - 1]

\* constraint k was binding: it reduced the size
Binding(k) == rm_call.sizes[k] < SizeBefore(k)

\* the constraint a size_limited_by label names (0 for None)
ConstraintOf(label) ==
    CASE label = "None" -> 0
      [] label = "max_positions_exceeded" -> 1
      [] label = "single_position_limit" -> 2
      [] label \in {"exposure_exceeded", "exposure_limit"} -> 3
      [] label \in {"sector_exceeded", "sector_limit"} -> 4
      [] label = "min_position_value" -> 5

\* C17: the constraints are applied in the order position count, single
\* position, portfolio exposure, sector, minimum notional, lot rounding,
\* and size_limited_by names the first of them that was binding (None when
\* none reduced the size); a later binding constraint does not replace the
\* label of an earlier one.
C17_FirstBindingConstraintLabelled ==
    rm_call.called =>
        \A k \in 1..5 :
            (Binding(k) /\ \A j \in 1..k - 1 : ~Binding(j))
                => ConstraintOf(rm_call.size_limited_by) = k

\* C18: position_size <= original_size = floor(account_value *
\* max_risk_per_trade / |entry - stop|) and position_value = position_size *
\* entry_price <= account_value * max_single_position_pct; for account
\* 100,000,000, entry 50000, stop 46500, 2% risk and a 15% cap: risk_amount
\* 2,000,000, original size 571, final size <= 300.
C18_SizeWithinRiskAndCap ==
    rm_call.called =>
        LET a   == rm_call.args
            rps == IF a.entry_price >= a.stop_price THEN a.entry_price - a.stop_price
                   ELSE a.stop_price - a.entry_price
        IN  /\ rm_call.position_size <= rm_call.original_size
            /\ rm_call.position_size >= 0
            /\ rps > 0 =>
                 /\ rm_call.original_size * rps * 100
                      <= a.account_value * DefaultRisk.max_risk_per_trade
                 /\ (rm_call.original_size + 1) * rps * 100
                      > a.account_value * DefaultRisk.max_risk_per_trade
            /\ rm_call.position_value = rm_call.position_size * a.entry_price
            /\ rm_call.position_value
                 <= PctOf(a.account_value, DefaultRisk.max_single_position_pct)
            /\ (a.account_value = 100000000 /\ a.entry_price = 50000 /\ a.stop_price = 46500)
                 => /\ rm_call.risk_amount = 2000000
                    /\ rm_call.original_size = 571
                    /\ rm_call.position_size <= 300

\* C18 witness: the example call, capped from 571 to 300 shares
C18_Witness ==
    /\ rm_call.called
    /\ rm_call.args.account_value = 100000000
    /\ rm_call.args.entry_price = 50000
    /\ rm_call.args.stop_price = 46500
    /\ rm_call.original_size = 571
    /\ rm_call.position_size = 300

----------------------------------------------------------------------------
(* Claims about VCP detection *)

\* contraction i is within contraction_ratio (0.7) of contraction i - 1,
\* by their highs and lows
WithinRatio(cs, i) ==
    (cs[i].high_price - cs[i].low_price) * cs[i - 1].high_price * 10
        <= (cs[i - 1].high_price - cs[i - 1].low_price) * cs[i].high_price * 7

Progressive(cs) == \A i \in 2..Len(cs) : WithinRatio(cs, i)

\* C19: a pattern returned with detected = true lists at least two
\* contractions, each at most contraction_ratio times the one before; a
\* series whose contractions violate this is returned with detected = false.
C19_DetectedIsProgressive ==
    vcp_call.called =>
        /\ vcp_call.detected =>
              /\ Len(vcp_call.contractions) >= 2
              /\ vcp_call.num_contractions = Len(vcp_call.contractions)
              /\ Progressive(vcp_call.contractions)
              /\ \A i \in 1..Len(vcp_call.contractions) :
                    vcp_call.contractions[i].depth_pct * vcp_call.contractions[i].high_price
                       = (vcp_call.contractions[i].high_price
                            - vcp_call.contractions[i].low_price) * 100 * DepthScale
        /\ ~Progressive(vcp_call.found) => ~vcp_call.detected

\* C19 witness: a detected pattern of three contractions 20% -> 6% -> 3%
C19_Witness ==
    /\ vcp_call.called
    /\ vcp_call.detected
    /\ Len(vcp_call.contractions) = 3
    /\ vcp_call.score >= SettingsMinVcpScore

\* the frame's segments of at least 3 bars, when there are two swing lows
FrameContractions(f) ==
    IF f.swing_lows < 2 THEN << >>
    ELSE SelectSeq(f.segments, LAMBDA seg : seg.bars >= 3)

FrameProgressive(f) ==
    LET cs == FrameContractions(f)
    IN  /\ Len(cs) >= 2
        /\ \A i \in 2..Len(cs) :
              (cs[i].high - cs[i].low) * cs[i - 1].high * 10
                 <= (cs[i - 1].high - cs[i - 1].low) * cs[i].high * 7

\* the rejection path the frame takes (0 when none), in detect's order
RejectionPath(f) ==
    IF f.n_bars < 120 THEN 1
    ELSE IF 120 - 1 - f.peak_idx < 20 THEN 2
    ELSE IF Len(FrameContractions(f)) < 2 THEN 3
    ELSE IF ~FrameProgressive(f) THEN 4
    ELSE IF (VcpBaseHigh - f.base_low) * 100 > 35 * VcpBaseHigh THEN 5
    ELSE IF (VcpBaseHigh - f.base_low) * 100 < 10 * VcpBaseHigh THEN 6
    ELSE 0

\* C20: each rejection path of detect (too few bars, no base, too few
\* contractions, non-progressive contractions, pattern too deep, pattern too
\* shallow) returns detected = false with a non-empty message and the fixed
\* score of the path: 0, 0, 0, 15, 25, 20.
C20_RejectionsAreStructured ==
    vcp_call.called =>
        LET path == RejectionPath(vcp_call.frame)
        IN  path # 0 =>
              /\ ~vcp_call.detected
              /\ vcp_call.message # ""
              /\ vcp_call.score = <<0, 0, 0, 15, 25, 20>>[path]

\* C20 witness: a frame with a base and progressive contractions rejected
\* for a pattern depth below min_pattern_depth
C20_Witness ==
    /\ vcp_call.called
    /\ RejectionPath(vcp_call.frame) = 6
    /\ vcp_call.score = 20
    /\ ~vcp_call.detected

\* the depth (high - low) / high is at most pct percent
DepthAtMost(high, low, pct) == (high - low) * 100 <= pct * high

\* the five tiers of the score, from the frame and the returned dry-up flag
ScoreTiers(f, dry_up) ==
    LET cs   == FrameContractions(f)
        n    == Len(cs)
        last == cs[n]
        bh   == VcpBaseHigh
        bl   == f.base_low
        t1   == IF n >= 4 THEN 25 ELSE IF n = 3 THEN 20 ELSE IF n = 2 THEN 15 ELSE 0
        t2   == IF ~DepthAtMost(bh, bl, 14) /\ (bh - bl) * 100 >= 15 * bh
                   /\ DepthAtMost(bh, bl, 25) THEN 20
                ELSE IF (bh - bl) * 100 >= 10 * bh /\ DepthAtMost(bh, bl, 30) THEN 15
                ELSE IF DepthAtMost(bh, bl, 35) THEN 10 ELSE 0
        t3   == IF DepthAtMost(last.high, last.low, 3) THEN 25
                ELSE IF DepthAtMost(last.high, last.low, 5) THEN 20
                ELSE IF DepthAtMost(last.high, last.low, 8) THEN 15
                ELSE 5
        t4   == IF dry_up THEN 15 ELSE 0
        t5   == IF DepthAtMost(last.high, last.low, 5) THEN 15
                ELSE IF DepthAtMost(last.high, last.low, 8) THEN 10 ELSE 0
    IN  <<t1, t2, t3, t4, t5>>

\* C21: on the fully evaluated path of detect the score is the capped sum of
\* the five tiers, so it is in 0..100, and detected holds exactly when the
\* score reaches the configured min_vcp_score.
C21_ScoreIsTierSum ==
    (vcp_call.called /\ RejectionPath(vcp_call.frame) = 0) =>
        LET t   == ScoreTiers(vcp_call.frame, vcp_call.volume_dry_up)
            sum == t[1] + t[2] + t[3] + t[4] + t[5]
        IN  /\ vcp_call.score = (IF sum > 100 THEN 100 ELSE sum)
            /\ vcp_call.score \in 0..100
            /\ t[1] <= 25 /\ t[2] <= 20 /\ t[3] <= 25 /\ t[5] <= 15
            /\ vcp_call.detected <=> vcp_call.score >= vcp_call.settings.min_vcp_score

\* C21 witness: a fully evaluated frame scoring 80, detected under the
\* threshold 60 and one not detected under the threshold 90
C21_Witness ==
    /\ vcp_call.called
    /\ RejectionPath(vcp_call.frame) = 0
    /\ vcp_call.score = 80
    /\ vcp_call.settings.min_vcp_score = 90
    /\ ~vcp_call.detected

RECURSIVE SumSegmentRatios(_, _, _)
SumSegmentRatios(cs, lo, hi) ==
    IF hi < lo THEN 0 ELSE cs[hi].volume_ratio + SumSegmentRatios(cs, lo, hi - 1)

\* mean ratio of cs[k+1..n] < mean ratio of cs[1..k] * 0.7: the list split
\* into two disjoint parts after its k-th contraction
DisjointDryUp(cs, k) ==
    LET n == Len(cs)
    IN  SumSegmentRatios(cs, k + 1, n) * k * 10 < SumSegmentRatios(cs, 1, k) * (n - k) * 7

\* C27: for n >= 2 contractions the dry-up flag is true exactly when the mean
\* volume ratio of the later half is below 0.7 times the mean of the earlier
\* half, the halves being disjoint (for odd n either way of halving is
\* accepted); for fewer than 2 contractions the flag is false.
C27_DryUpComparesDisjointHalves ==
    vcp_call.called =>
        LET cs == FrameContractions(vcp_call.frame)
            n  == Len(cs)
        IN  /\ RejectionPath(vcp_call.frame) = 0 =>
                  \/ vcp_call.volume_dry_up <=> DisjointDryUp(cs, n \div 2)
                  \/ vcp_call.volume_dry_up <=> DisjointDryUp(cs, n - (n \div 2))
            /\ n < 2 => ~vcp_call.volume_dry_up

----------------------------------------------------------------------------
(* Claims about the minimum notional and lot rounding *)

\* C30: for every lot_size >= 1 a non-zero position returned by
\* calculate_position_size is worth at least min_position_value and its size
\* is a multiple of lot_size.
C30_NonZeroPositionMeetsMinimum ==
    (rm_call.called /\ rm_call.position_size # 0) =>
        /\ rm_call.args.lot_size >= 1
        /\ rm_call.position_size % rm_call.args.lot_size = 0
        /\ rm_call.position_size * rm_call.args.entry_price
              >= DefaultRisk.min_position_value

----------------------------------------------------------------------------
(* Claims about the cash of a backtest *)

\* the amount is not below zero
NonNegative(amount) == amount.net >= FeeCeil(1, amount.fee)

----------------------------------------------------------------------------
(* Claims about the trend template and the analyses on short frames *)

\* the 8 criteria as the class documents them, on a frame that carries its
\* moving averages
DocumentedCriteria(f, rs_rating) ==
    << f.close > f.sma_150 /\ f.sma_150 > f.sma_200,
       f.close > f.sma_50,
       f.sma_50 > f.sma_150 /\ f.sma_150 > f.sma_200,
       f.sma_200 > f.sma_200_ago,
       f.close * 100 >= 130 * f.week_52_low,
       f.close * 100 >= 75 * f.week_52_high,
       rs_rating.given /\ rs_rating.value >= 70,
       f.close > f.recent_base >>

\* C22: on a frame of at least 250 bars analyze returns score = the number
\* of its 8 criteria that hold, so 0 <= score <= 8, and passes = (score = 8);
\* passes is false when rs_rating is None or below min_rs_rating.
C22_ScoreCountsCriteria ==
    (tt_call.called /\ tt_call.frame.n_bars >= 250) =>
        /\ tt_call.score = Cardinality({ i \in 1..8 : tt_call.criteria[i] })
        /\ tt_call.score \in 0..8
        /\ tt_call.passes <=> tt_call.score = 8
        /\ tt_call.frame.has_sma =>
              tt_call.criteria = DocumentedCriteria(tt_call.frame, tt_call.rs_rating)
        /\ (~tt_call.rs_rating.given \/ tt_call.rs_rating.value < 70) => ~tt_call.passes

\* C22 witness: a frame meeting all 8 criteria
C22_Witness ==
    /\ tt_call.called
    /\ tt_call.frame.n_bars >= 250
    /\ tt_call.score = 8
    /\ tt_call.passes

\* C23: too few bars is never a fault: analyze on fewer than 250 bars returns
\* score 0 and passes = false, detect on fewer than lookback_days bars returns
\* detected = false with score 0, calculate_raw_rs on fewer than 252 bars
\* returns raw_rs 0.
C23_ShortFramesAreRecovered ==
    /\ (tt_call.called /\ tt_call.frame.n_bars < 250) =>
          tt_call.score = 0 /\ ~tt_call.passes
    /\ (vcp_call.called /\ vcp_call.frame.n_bars < DefaultVcp.lookback_days) =>
          ~vcp_call.detected /\ vcp_call.score = 0
    /\ (rs_call.called /\ rs_call.frame.n_bars < 252) => rs_call.raw_rs = 0

\* C23 witness: calculate_raw_rs on 251 bars whose closes have risen
C23_Witness ==
    /\ rs_call.called
    /\ rs_call.frame.n_bars = 251
    /\ rs_call.frame.close = 120
    /\ rs_call.frame.past = [i \in 1..4 |-> 80]
    /\ rs_call.raw_rs = 0

----------------------------------------------------------------------------
(* Claims about the RS ratings *)

\* C24: for a non-empty universe each symbol's rating is 100 * (number of
\* symbols with a strictly lower raw score) / (size of the universe) rounded
\* to a nearest integer, so ratings are in 0..100, equal raw scores get equal
\* ratings and a higher raw score never gets a lower rating.
C24_RatingIsStrictPercentile ==
    ratings_call.called =>
        LET raw    == ratings_call.rs_raw
            rating == ratings_call.rs_rating
            n      == Len(ratings_call.stock_data)
            below(s) == Cardinality({ u \in 1..n : raw[u] < raw[s] })
            dist(s)  == rating[s] * n - 100 * below(s)
        IN  /\ n >= 1 /\ Len(raw) = n
            /\ \A s \in 1..n :
                  /\ rating[s] \in 0..100
                  /\ 2 * dist(s) <= n /\ -2 * dist(s) <= n
            /\ \A s, u \in 1..n :
                  /\ raw[s] = raw[u] => rating[s] = rating[u]
                  /\ raw[s] > raw[u] => rating[s] >= rating[u]

\* C24 witness: a universe of 8 symbols in which one symbol has exactly one
\* symbol below it (12.5%) and two symbols share a raw score
C24_Witness ==
    /\ ratings_call.called
    /\ Len(ratings_call.stock_data) = 8
    /\ \E s, u \in 1..8 :
          /\ s # u
          /\ ratings_call.rs_raw[s] = ratings_call.rs_raw[u]
          /\ Cardinality({ w \in 1..8 : ratings_call.rs_raw[w] < ratings_call.rs_raw[s] }) = 1
          /\ ratings_call.rs_rating[s] = 12

----------------------------------------------------------------------------
(* Claims about the batch operations *)

\* the symbols of the batch whose processing did not fail
NotFailed(op, batch) ==
    { i \in 1..Len(batch) :
        CASE op = "analyze_batch"    -> batch[i] # "raises"
          [] op = "scan_for_signals" -> batch[i] \notin {"unsliceable", "raises", "no_data"}
          [] op = "fetch_batch"      -> batch[i] # "raises" }

\* the symbols of the batch that yield a result when processed alone
Yielding(op, batch) ==
    { i \in NotFailed(op, batch) :
        CASE op = "analyze_batch"    -> TRUE
          [] op = "scan_for_signals" -> batch[i] = "signal"
          [] op = "fetch_batch"      -> batch[i] = "rows" }

\* C25: in analyze_batch, the backtest signal scan and fetch_batch a failure
\* on one symbol never makes the batch call raise and never keeps the other
\* symbols from being processed: the call returns the results of all symbols
\* that did not fail.
C25_BatchSurvivesSymbolFailure ==
    batch_call.called =>
        /\ ~batch_call.raised
        /\ Yielding(batch_call.op, batch_call.batch)
              \subseteq { batch_call.results[k].symbol : k \in 1..Len(batch_call.results) }

----------------------------------------------------------------------------
(* Claims about OrderExecutor *)

OrderOps == {"buy_market", "sell_market", "buy_limit", "sell_limit", "sell_stop"}

\* C26: an executor constructed with dry_run=True never places an order with
\* the broker, whatever the order type and whether or not a broker client is
\* attached: every request is answered by the simulated fill, success and
\* FILLED, and nothing is left pending for check_stop_orders to execute.
C26_DryRunNeverReachesBroker ==
    (executor # NoCall /\ executor.dry_run) =>
        /\ executor.broker_orders = EmptyBag
        /\ DOMAIN executor.pending_orders = {}
        /\ executor.last.op \in OrderOps =>
              /\ executor.last.result.success
              /\ executor.last.result.status = "FILLED"
              /\ executor.last.result.filled_quantity = executor.last.request.quantity

C26_Witness ==
    /\ executor # NoCall
    /\ executor.dry_run
    /\ executor.broker
    /\ executor.last.op = "sell_stop"
    /\ executor.last.result.status = "FILLED"

\* the market sells of a symbol and quantity placed with the broker
MarketSells(e, symbol, quantity) ==
    CopiesIn([symbol |-> symbol, quantity |-> quantity, method |-> "sell_market"],
             e.broker_orders)

\* the pending stop orders of a symbol and quantity that the price update of
\* the last call triggers
TriggeredLike(e, current_prices, symbol, quantity) ==
    { i \in DOMAIN e.pending_orders :
        /\ e.pending_orders[i].symbol = symbol
        /\ e.pending_orders[i].quantity = quantity
        /\ symbol \in DOMAIN current_prices
        /\ current_prices[symbol] <= e.pending_orders[i].stop_price }

\* the step is a call of the operation (a second passing is no call)
Called(op) == executor'.last.op = op /\ executor'.clock = executor.clock

\* C28: a registered stop order stays pending, unchanged, until it is
\* cancelled or check_stop_orders sees a price of its symbol at or below its
\* stop price; on that trigger it leaves the pending orders and exactly one
\* market sell of its symbol and quantity is placed for it; otherwise no
\* market sell is placed for it.
C28_StopPendingUntilCancelledOrTriggered ==
    [][\A order_id \in DOMAIN executor.pending_orders :
         LET request == executor.pending_orders[order_id]
             last == executor'.last
             sold == MarketSells(executor', request.symbol, request.quantity)
                       - MarketSells(executor, request.symbol, request.quantity)
         IN  \/ /\ order_id \in DOMAIN executor'.pending_orders
                /\ executor'.pending_orders[order_id] = request
                /\ sold = IF Called("sell_market") /\ last.request.symbol = request.symbol
                             /\ last.request.quantity = request.quantity
                          THEN 1 ELSE 0
                /\ Called("check_stop_orders") =>
                     \/ request.symbol \notin DOMAIN last.current_prices
                     \/ last.current_prices[request.symbol] > request.stop_price
             \/ /\ Called("cancel_order")
                /\ last.order_id = order_id
                /\ order_id \notin DOMAIN executor'.pending_orders
                /\ sold = 0
             \/ /\ Called("check_stop_orders")
                /\ request.symbol \in DOMAIN last.current_prices
                /\ last.current_prices[request.symbol] <= request.stop_price
                /\ order_id \notin DOMAIN executor'.pending_orders
                /\ sold = Cardinality(TriggeredLike(executor, last.current_prices,
                                                    request.symbol, request.quantity))
      ]_executor

====
